---- MODULE Spec2Model ----
(***************************************************************************)
(* Healthcare facility locator: the live-map search server                 *)
(* (map-integration.js), the persisted facility API                        *)
(* (controllers/facilityController.js, the Facility model) and the         *)
(* normalizer of OpenStreetMap elements.                                   *)
(*                                                                         *)
(* JavaScript values are modelled as follows.  An object is a function     *)
(* whose DOMAIN holds the keys that are present; an absent key is          *)
(* `undefined`.  A string is a TLA+ string, an array a sequence.  A thrown *)
(* Error is its message.  Numbers are integers: coordinates are whole      *)
(* degrees, and the trigonometry of calculateDistance is carried out in    *)
(* fixed point (see the section on distance).                              *)
(***************************************************************************)
EXTENDS Integers, Sequences, FiniteSets, TLC

(***************************************************************************)
(* Bounds of the model.                                                    *)
(***************************************************************************)
\* Capacity of the facility store (records ever created).
MaxFacilities == 1
\* Longest element batch the map-data provider answers with (SpecLive).
MaxElems == 3
\* Most providers a cost comparison answers with (SpecCost).
MaxProviders == 2

(***************************************************************************)
(* Generic helpers.                                                        *)
(***************************************************************************)
Has(obj, k) == k \in DOMAIN obj

\* JavaScript truthiness of a string-valued property: present and non-empty.
Truthy(obj, k) == Has(obj, k) /\ obj[k] # ""

\* obj[k] === v
Is(obj, k, v) == Has(obj, k) /\ obj[k] = v

Range(s) == {s[i] : i \in DOMAIN s}

\* Array.prototype.filter: the elements satisfying Test, in their order.
RECURSIVE SelectIdx(_, _, _)
SelectIdx(s, keep, i) ==
  IF i > Len(s) THEN <<>>
  ELSE (IF i \in keep THEN <<s[i]>> ELSE <<>>) \o SelectIdx(s, keep, i + 1)

FilterSeq(s, Test(_)) == SelectIdx(s, {i \in DOMAIN s : Test(s[i])}, 1)

\* a || b on strings
OrElse(a, b) == IF a # "" THEN a ELSE b

(***************************************************************************)
(* Strings: toLowerCase and includes, character by character.              *)
(***************************************************************************)
Upper == <<"A","B","C","D","E","F","G","H","I","J","K","L","M",
           "N","O","P","Q","R","S","T","U","V","W","X","Y","Z">>
Lower == <<"a","b","c","d","e","f","g","h","i","j","k","l","m",
           "n","o","p","q","r","s","t","u","v","w","x","y","z">>

LowerChar(c) ==
  IF \E i \in 1..26 : Upper[i] = c
  THEN Lower[CHOOSE i \in 1..26 : Upper[i] = c]
  ELSE c

UpperChar(c) ==
  IF \E i \in 1..26 : Lower[i] = c
  THEN Upper[CHOOSE i \in 1..26 : Lower[i] = c]
  ELSE c

RECURSIVE toLowerCase(_)
toLowerCase(s) ==
  IF Len(s) = 0 THEN ""
  ELSE LowerChar(SubSeq(s, 1, 1)) \o toLowerCase(SubSeq(s, 2, Len(s)))

\* String.prototype.includes
includes(s, sub) ==
  \E i \in 1..(Len(s) - Len(sub) + 1) : SubSeq(s, i, i + Len(sub) - 1) = sub

\* String.prototype.startsWith
startsWith(s, p) == Len(s) >= Len(p) /\ SubSeq(s, 1, Len(p)) = p

\* s.replace(p, "") for a prefix p: the first occurrence, which for the keys
\* scanned (they start with p's own prefix) is at the front when present.
stripPrefix(s, p) ==
  IF startsWith(s, p) THEN SubSeq(s, Len(p) + 1, Len(s)) ELSE s

\* v.charAt(0).toUpperCase() + v.slice(1)
Capitalize(v) ==
  IF Len(v) = 0 THEN "" ELSE UpperChar(SubSeq(v, 1, 1)) \o SubSeq(v, 2, Len(v))

(***************************************************************************)
(* Distance: calculateDistance in fixed point.                             *)
(*   angles in micro-radians, sines and cosines in millionths,             *)
(*   the haversine term a in 1e-8, the result in metres.                   *)
(***************************************************************************)
\* Earth's radius in km.
R == 6371
\* One degree in micro-radians (Math.PI / 180).
MicroRadPerDeg == 17453
\* Fixed-point unit.
U == 1000000

toRad(value) == value * MicroRadPerDeg

\* Math.sin(x / 2) for x in micro-radians (|x| below 5 degrees): x/2 - (x/2)^3/6.
\* Math.sin is odd: the negative half is the mirror of the positive one.
SinHalfPos(x) ==
  LET y == x \div 2
      cube == ((y * y) \div U) * y
  IN  y - (cube \div (6 * U))

SinHalf(x) == IF x < 0 THEN 0 - SinHalfPos(0 - x) ELSE SinHalfPos(x)

\* Math.cos(x) for x in micro-radians (|x| below 2.6 degrees): 1 - x^2/2 + x^4/24.
Cos(x) ==
  LET sq == (x * x) \div U
  IN  U - (sq \div 2) + ((sq * sq) \div (24 * U))

\* Math.sqrt on naturals: the largest r with r*r <= n.
RECURSIVE SqrtBetween(_, _, _)
SqrtBetween(n, lo, hi) ==
  IF lo >= hi THEN lo
  ELSE LET mid == (lo + hi + 1) \div 2
       IN  IF mid * mid <= n THEN SqrtBetween(n, mid, hi)
           ELSE SqrtBetween(n, lo, mid - 1)

Sqrt(n) == SqrtBetween(n, 0, 46340)

\* 2 * Math.atan2(Math.sqrt(a), Math.sqrt(1 - a)) = 2 * asin(sqrt(a)), with
\* sqrt(a) = y millionths: asin(y) = y + y^3/6.
CentralAngle(a) ==
  LET y == Sqrt(a * 10000)
      cube == ((y * y) \div U) * y
  IN  2 * (y + (cube \div (6 * U)))

\* A haversine that takes the cosine of the first latitude twice.
calculateDistanceOneLatitude(coords1, coords2) ==
  LET dLat == toRad(coords2.lat - coords1.lat)
      dLon == toRad(coords2.lon - coords1.lon)
      sLat == SinHalf(dLat)
      sLon == SinHalf(dLon)
      cc   == ((Cos(toRad(coords1.lat)) \div 100) *
               (Cos(toRad(coords1.lat)) \div 100)) \div 10000
      a    == ((sLat * sLat) \div 10000) +
              ((cc * ((sLon * sLon) \div 10000)) \div 10000)
  IN  (R * CentralAngle(a)) \div 1000

calculateDistance(coords1, coords2) ==
  LET dLat == toRad(coords2.lat - coords1.lat)
      dLon == toRad(coords2.lon - coords1.lon)
      sLat == SinHalf(dLat)
      sLon == SinHalf(dLon)
      cc   == ((Cos(toRad(coords1.lat)) \div 100) *
               (Cos(toRad(coords2.lat)) \div 100)) \div 10000
      a    == ((sLat * sLat) \div 10000) +
              ((cc * ((sLon * sLon) \div 10000)) \div 10000)
  IN  (R * CentralAngle(a)) \div 1000

(***************************************************************************)
(* The normalizer: OpenStreetMap tags to facility fields.                  *)
(***************************************************************************)
\* The rules with those on healthcare tried before those on amenity.
getFacilityTypeHealthcareFirst(tags) ==
  IF Is(tags, "healthcare", "centre") THEN "Health Center"
  ELSE IF Is(tags, "healthcare", "clinic") THEN "Clinic"
  ELSE IF Truthy(tags, "healthcare")
       THEN "Healthcare (" \o tags["healthcare"] \o ")"
  ELSE IF Is(tags, "amenity", "hospital") THEN "Hospital"
  ELSE IF Is(tags, "amenity", "clinic") THEN "Clinic"
  ELSE IF Is(tags, "amenity", "doctors") THEN "Doctor's Office"
  ELSE IF Is(tags, "social_facility", "healthcare")
       THEN "Community Health Center"
  ELSE "Healthcare Facility"

getFacilityType(tags) ==
  IF Is(tags, "amenity", "hospital") THEN "Hospital"
  ELSE IF Is(tags, "amenity", "clinic") THEN "Clinic"
  ELSE IF Is(tags, "amenity", "doctors") THEN "Doctor's Office"
  ELSE IF Is(tags, "healthcare", "centre") THEN "Health Center"
  ELSE IF Is(tags, "healthcare", "clinic") THEN "Clinic"
  ELSE IF Truthy(tags, "healthcare")
       THEN "Healthcare (" \o tags["healthcare"] \o ")"
  ELSE IF Is(tags, "social_facility", "healthcare")
       THEN "Community Health Center"
  ELSE "Healthcare Facility"

\* A default name that leaves the operator out.
getFacilityTypeNameUnnamed(tags) == "Unnamed " \o getFacilityType(tags)

getFacilityTypeName(tags) ==
  LET type == getFacilityType(tags)
  IN  IF Truthy(tags, "operator") THEN tags["operator"] \o " " \o type
      ELSE "Unnamed " \o type

\* parts.join(', ')
RECURSIVE Join(_)
Join(parts) ==
  IF Len(parts) = 0 THEN ""
  ELSE IF Len(parts) = 1 THEN parts[1]
  ELSE parts[1] \o ", " \o Join(Tail(parts))

formatAddress(tags) ==
  LET street ==
        IF Truthy(tags, "addr:housenumber") /\ Truthy(tags, "addr:street")
        THEN <<tags["addr:housenumber"] \o " " \o tags["addr:street"]>>
        ELSE IF Truthy(tags, "addr:street") THEN <<tags["addr:street"]>>
        ELSE <<>>
      city ==
        IF Truthy(tags, "addr:city")
        THEN <<tags["addr:city"]
               \o (IF Truthy(tags, "addr:postcode")
                   THEN ", " \o tags["addr:postcode"] ELSE "")
               \o (IF Truthy(tags, "addr:state")
                   THEN ", " \o tags["addr:state"] ELSE "")>>
        ELSE <<>>
      parts == street \o city
  IN  IF Len(parts) > 0 THEN Join(parts) ELSE "Address not available"

\* The order in which `for (const key in tags)` visits the keys of the model.
TagKeyOrder ==
  <<"amenity", "healthcare", "social_facility", "name", "operator",
    "healthcare:speciality", "healthcare:speciality:cardiology",
    "healthcare:speciality:dental",
    "payment:insurance", "payment:sliding_scale", "payment:cash", "fee",
    "phone", "addr:street", "addr:city">>

KeysOf(tags) == FilterSeq(TagKeyOrder, LAMBDA k : k \in DOMAIN tags)

\* The fixed specialty of a healthcare value (lines 344-350).
FixedSpecialty(tags) ==
  IF Is(tags, "healthcare", "dentist") THEN <<"Dentistry">>
  ELSE IF Is(tags, "healthcare", "pharmacy") THEN <<"Pharmacy">>
  ELSE IF Is(tags, "healthcare", "optometrist") THEN <<"Optometry">>
  ELSE IF Is(tags, "healthcare", "rehabilitation") THEN <<"Rehabilitation">>
  ELSE IF Is(tags, "healthcare", "alternative") THEN <<"Alternative Medicine">>
  ELSE IF Is(tags, "healthcare", "laboratory") THEN <<"Medical Laboratory">>
  ELSE IF Is(tags, "healthcare", "psychology") THEN <<"Psychology">>
  ELSE <<>>

RECURSIVE MapStrip(_, _)
MapStrip(keys, prefix) ==
  IF Len(keys) = 0 THEN <<>>
  ELSE <<stripPrefix(keys[1], prefix)>> \o MapStrip(Tail(keys), prefix)

extractSpecialties(tags) ==
  LET scanned == FilterSeq(KeysOf(tags),
                   LAMBDA k : startsWith(k, "healthcare:speciality")
                              /\ tags[k] = "yes")
      specialties == MapStrip(scanned, "healthcare:speciality:")
                     \o FixedSpecialty(tags)
  IN  IF Len(specialties) = 0
      THEN IF Is(tags, "amenity", "hospital")
           THEN <<"General Hospital Services">>
           ELSE IF Is(tags, "amenity", "clinic")
           THEN <<"General Clinic Services">>
           ELSE IF Truthy(tags, "healthcare")
           THEN <<Capitalize(tags["healthcare"]) \o " Services">>
           ELSE <<"General Healthcare">>
      ELSE specialties

\* Payment information that takes insurance to be accepted unless the tag
\* says no.
extractPaymentInfoAssuming(tags) ==
  [accepts_insurance |->
     IF Is(tags, "payment:insurance", "no") THEN "No" ELSE "Yes",
   free_care |->
     IF Is(tags, "fee", "yes") THEN "No"
     ELSE IF Is(tags, "fee", "no") \/ Is(tags, "fee", "none") THEN "Yes"
     ELSE "Unknown",
   sliding_scale |->
     IF Is(tags, "payment:sliding_scale", "no") THEN "No"
     ELSE IF Is(tags, "payment:sliding_scale", "yes") THEN "Yes"
     ELSE "Unknown",
   payment_methods |-> <<>>]

extractPaymentInfo(tags) ==
  [accepts_insurance |->
     IF Is(tags, "payment:insurance", "no") THEN "No"
     ELSE IF Is(tags, "payment:insurance", "yes") THEN "Yes" ELSE "Unknown",
   free_care |->
     IF Is(tags, "fee", "yes") THEN "No"
     ELSE IF Is(tags, "fee", "no") \/ Is(tags, "fee", "none") THEN "Yes"
     ELSE "Unknown",
   sliding_scale |->
     IF Is(tags, "payment:sliding_scale", "no") THEN "No"
     ELSE IF Is(tags, "payment:sliding_scale", "yes") THEN "Yes"
     ELSE "Unknown",
   payment_methods |->
     MapStrip(FilterSeq(KeysOf(tags),
                LAMBDA k : startsWith(k, "payment:") /\ tags[k] = "yes"
                           /\ k \notin {"payment:sliding_scale",
                                        "payment:insurance"}),
              "payment:")]

(***************************************************************************)
(* processOverpassResults: a batch of elements to a list of facilities.    *)
(***************************************************************************)
\* First pass: nodes[element.id] = element; a later element of the same id
\* overwrites an earlier one.
NodeIds(elements) ==
  {elements[i].id : i \in {j \in DOMAIN elements : elements[j].type = "node"}}

NodeById(elements, id) ==
  elements[CHOOSE i \in DOMAIN elements :
             /\ elements[i].type = "node" /\ elements[i].id = id
             /\ \A j \in DOMAIN elements :
                  (elements[j].type = "node" /\ elements[j].id = id) => j <= i]

\* A resolution that never comes back empty: an element whose coordinates do
\* not resolve is placed at the origin.
ResolveCoordsOrOrigin(element, elements) ==
  IF element.type = "node"
  THEN <<[lat |-> element.lat, lon |-> element.lon]>>
  ELSE <<[lat |-> 0, lon |-> 0]>>

\* The coordinates of an element, <<coords>>, or <<>> when none resolve.
ResolveCoords(element, elements) ==
  IF element.type = "node"
  THEN <<[lat |-> element.lat, lon |-> element.lon]>>
  ELSE IF element.type = "way" /\ Has(element, "nodes")
          /\ Len(element.nodes) > 0
  THEN IF element.nodes[1] \in NodeIds(elements)
       THEN LET firstNode == NodeById(elements, element.nodes[1])
            IN  <<[lat |-> firstNode.lat, lon |-> firstNode.lon]>>
       ELSE <<>>
  ELSE <<>>

\* Whether the second pass considers the element at all (lines 120-122).
IsMainElement(element) ==
  element.type \in {"node", "way"} /\ Has(element, "tags")

\* A facility that takes, for a way, the id of the node it is placed at.
MakeFacilityOfFirstNode(element, coords, searchCoords) ==
  [id |-> IF element.type = "way" THEN element.nodes[1] ELSE element.id,
   type |-> element.type,
   name |-> IF Truthy(element.tags, "name") THEN element.tags["name"]
            ELSE getFacilityTypeName(element.tags),
   lat |-> coords.lat,
   lon |-> coords.lon,
   tags |-> element.tags,
   distance |-> calculateDistance(searchCoords, coords),
   address |-> formatAddress(element.tags),
   facilityType |-> getFacilityType(element.tags),
   phone |-> IF Truthy(element.tags, "phone") THEN element.tags["phone"]
             ELSE IF Truthy(element.tags, "contact:phone")
             THEN element.tags["contact:phone"] ELSE "Not available",
   website |-> IF Truthy(element.tags, "website") THEN element.tags["website"]
               ELSE IF Truthy(element.tags, "contact:website")
               THEN element.tags["contact:website"] ELSE "",
   opening_hours |-> IF Truthy(element.tags, "opening_hours")
                     THEN element.tags["opening_hours"] ELSE "Not specified"]

MakeFacility(element, coords, searchCoords) ==
  [id |-> element.id,
   type |-> element.type,
   name |-> IF Truthy(element.tags, "name") THEN element.tags["name"]
            ELSE getFacilityTypeName(element.tags),
   lat |-> coords.lat,
   lon |-> coords.lon,
   tags |-> element.tags,
   distance |-> calculateDistance(searchCoords, coords),
   address |-> formatAddress(element.tags),
   facilityType |-> getFacilityType(element.tags),
   phone |-> IF Truthy(element.tags, "phone") THEN element.tags["phone"]
             ELSE IF Truthy(element.tags, "contact:phone")
             THEN element.tags["contact:phone"] ELSE "Not available",
   website |-> IF Truthy(element.tags, "website") THEN element.tags["website"]
               ELSE IF Truthy(element.tags, "contact:website")
               THEN element.tags["contact:website"] ELSE "",
   opening_hours |-> IF Truthy(element.tags, "opening_hours")
                     THEN element.tags["opening_hours"] ELSE "Not specified"]

RECURSIVE CollectFacilities(_, _, _)
CollectFacilities(elements, searchCoords, i) ==
  IF i > Len(elements) THEN <<>>
  ELSE LET element == elements[i]
           coords  == ResolveCoords(element, elements)
       IN  (IF IsMainElement(element) /\ Len(coords) > 0
            THEN <<MakeFacility(element, coords[1], searchCoords)>>
            ELSE <<>>)
           \o CollectFacilities(elements, searchCoords, i + 1)

\* Array.prototype.sort((a, b) => a.distance - b.distance): stable.
RECURSIVE InsertByDistance(_, _)
InsertByDistance(sorted, f) ==
  IF Len(sorted) = 0 THEN <<f>>
  ELSE IF f.distance - sorted[Len(sorted)].distance >= 0
       THEN Append(sorted, f)
       ELSE Append(InsertByDistance(SubSeq(sorted, 1, Len(sorted) - 1), f),
                   sorted[Len(sorted)])

RECURSIVE SortFrom(_, _, _)
SortFrom(facilities, sorted, i) ==
  IF i > Len(facilities) THEN sorted
  ELSE SortFrom(facilities, InsertByDistance(sorted, facilities[i]), i + 1)

\* The list left in the order of the batch.
SortUnsorted(facilities) == facilities

SortByDistance(facilities) == SortFrom(facilities, <<>>, 1)

processOverpassResults(data, searchCoords) ==
  SortByDistance(CollectFacilities(data.elements, searchCoords, 1))

\* getFacilityDetails' record for the first element of the answer, <<record>>,
\* or <<>> when it throws 'Facility not found' (lines 277-321).
FacilityDetails(data) ==
  IF Has(data, "elements") /\ Len(data.elements) > 0
  THEN LET element == data.elements[1]
           coords  == ResolveCoords(element, data.elements)
       IN  IF Len(coords) > 0 /\ Has(element, "tags")
           THEN <<[id |-> element.id,
                   type |-> element.type,
                   name |-> IF Truthy(element.tags, "name")
                            THEN element.tags["name"]
                            ELSE getFacilityTypeName(element.tags),
                   lat |-> coords[1].lat,
                   lon |-> coords[1].lon,
                   tags |-> element.tags,
                   address |-> formatAddress(element.tags),
                   facilityType |-> getFacilityType(element.tags),
                   specialties |-> extractSpecialties(element.tags),
                   payment_types |-> extractPaymentInfo(element.tags)]>>
           ELSE <<>>
  ELSE <<>>

(***************************************************************************)
(* Building JavaScript objects with optional keys.                         *)
(***************************************************************************)
\* The object with the given set of <<key, value>> pairs.
Obj(pairs) ==
  [k \in {p[1] : p \in pairs} |-> (CHOOSE p \in pairs : p[1] = k)[2]]

\* The key absent, or present with one of the values.
Opt(k, values) == {{}} \cup {{<<k, v>>} : v \in values}

\* `${obj[k]}` in a template string.
Render(obj, k) == IF Has(obj, k) THEN obj[k] ELSE "undefined"

(***************************************************************************)
(* The geocoder: geocodeAddress.                                           *)
(***************************************************************************)
\* parseFloat on the coordinate strings the geocoding service answers with.
DigitStrings == <<"0", "1", "2">>
parseFloat(s) == (CHOOSE i \in DOMAIN DigitStrings : DigitStrings[i] = s) - 1

\* encodeURIComponent(address): an absent argument is the text "undefined".
encodeURIComponent(args) == Render(args, "address")

\* What the geocoding service can answer: fetch rejects, response.json()
\* rejects, or a JSON array of at most one match (limit=1).
Places ==
  {[lat |-> "1", lon |-> "1", display_name |-> "Chennai, Tamil Nadu"],
   [lat |-> "1", lon |-> "2", display_name |-> "Vellore, Tamil Nadu"]}

GeoAnswers ==
  {[kind |-> "network"], [kind |-> "parse"]}
  \cup {[kind |-> "json", data |-> <<>>]}
  \cup {[kind |-> "json", data |-> <<m>>] : m \in Places}

FetchFailed == "fetch failed"
JsonFailed == "Unexpected token < in JSON at position 0"
LocationNotFound == "Location not found"
FacilityNotFound == "Facility not found"

\* The outcome of an awaited call: a value, or a thrown Error (its message).
Ok(v) == [ok |-> TRUE, value |-> v]
Throw(msg) == [ok |-> FALSE, error |-> msg]

\* A geocoder that reports every failure as a location that was not found.
geocodeOneFailure(answer) ==
  IF answer.kind = "json" /\ Len(answer.data) > 0
  THEN Ok([lat |-> parseFloat(answer.data[1].lat),
           lon |-> parseFloat(answer.data[1].lon),
           displayName |-> answer.data[1].display_name])
  ELSE Throw(LocationNotFound)

geocodeAddress(answer) ==
  IF answer.kind = "network" THEN Throw(FetchFailed)
  ELSE IF answer.kind = "parse" THEN Throw(JsonFailed)
  ELSE IF Len(answer.data) > 0
       THEN Ok([lat |-> parseFloat(answer.data[1].lat),
                lon |-> parseFloat(answer.data[1].lon),
                displayName |-> answer.data[1].display_name])
       ELSE Throw(LocationNotFound)

(***************************************************************************)
(* The map-data provider: searchHealthcareFacilities.                      *)
(***************************************************************************)
NoElements == "Cannot read properties of undefined (reading 'forEach')"

\* A provider call that swallows its failures and answers with no facility.
searchSwallowingFailures(answer, coords) ==
  IF answer.kind = "json" /\ Has(answer.data, "elements")
  THEN Ok(processOverpassResults(answer.data, coords))
  ELSE Ok(<<>>)

searchHealthcareFacilities(answer, coords) ==
  IF answer.kind = "network" THEN Throw(FetchFailed)
  ELSE IF answer.kind = "parse" THEN Throw(JsonFailed)
  ELSE IF ~Has(answer.data, "elements") THEN Throw(NoElements)
  ELSE Ok(processOverpassResults(answer.data, coords))

getFacilityDetails(answer) ==
  IF answer.kind = "network" THEN Throw(FetchFailed)
  ELSE IF answer.kind = "parse" THEN Throw(JsonFailed)
  ELSE IF Len(FacilityDetails(answer.data)) > 0
       THEN Ok(FacilityDetails(answer.data)[1])
       ELSE Throw(FacilityNotFound)

(***************************************************************************)
(* The live-map handlers of the server: POST /api/facilities/search,       *)
(* POST /search-providers and GET /api/facilities/:type/:id.               *)
(***************************************************************************)
\* const { radius = 10 } = req.body
DefaultRadius == 10
Radius(body) == IF Has(body, "radius") THEN body.radius ELSE DefaultRadius

\* facility.facilityType.toLowerCase().includes(careType.toLowerCase())
CareTypeFilter(facilities, body) ==
  IF Truthy(body, "careType")
  THEN FilterSeq(facilities,
         LAMBDA f : includes(toLowerCase(f.facilityType),
                             toLowerCase(body.careType)))
  ELSE facilities

\* The payment filter of /search-providers (lines 521-533).
PassesPayment(provider, paymentOptions) ==
  \/ /\ "Sliding Scale" \in Range(paymentOptions)
     /\ Is(provider.tags, "payment:sliding_scale", "yes")
  \/ /\ "Free" \in Range(paymentOptions)
     /\ Is(provider.tags, "fee", "no")

PaymentFilter(facilities, body) ==
  IF Has(body, "paymentOptions") /\ Len(body.paymentOptions) > 0
  THEN FilterSeq(facilities,
         LAMBDA provider : PassesPayment(provider, body.paymentOptions))
  ELSE facilities

SearchEnvelope(body, coords, providers) ==
  [status |-> 200,
   location |-> coords.displayName,
   searchCoordinates |-> [lat |-> coords.lat, lon |-> coords.lon],
   radius |-> Radius(body),
   totalProviders |-> Len(providers),
   providers |-> providers]

\* res.json of router.post('/facilities/search')
ApiSearchResponse(body, coords, facilities) ==
  SearchEnvelope(body, coords, CareTypeFilter(facilities, body))

\* res.json of app.post('/search-providers')
SearchProvidersResponse(body, coords, facilities) ==
  SearchEnvelope(body, coords,
                 PaymentFilter(CareTypeFilter(facilities, body), body))

\* The catch blocks of the live-map handlers.
LiveSearchError(msg) ==
  [status |-> 500, error |-> OrElse(msg, "An error occurred during search")]

DetailsError(msg) ==
  [status |-> 500, error |-> OrElse(msg, "Failed to retrieve facility details")]

(***************************************************************************)
(* The Facility model and the persisted facility API.                      *)
(***************************************************************************)
PaymentFlags ==
  {"slidingScale", "freeCare", "acceptsInsurance", "acceptsMedicaid",
   "acceptsMedicare", "financialAssistance", "charityCare"}

\* Schema defaults of paymentOptions: acceptsInsurance is true, the rest false.
PaymentDefaults == [f \in PaymentFlags |-> f = "acceptsInsurance"]

FacilityTypeEnum ==
  {"hospital", "clinic", "doctors", "dentist", "pharmacy", "mental"}

\* Schema validation on create: name and facilityType required, facilityType
\* one of the enum.
ValidationFailed == "Facility validation failed"
Validates(doc) ==
  /\ Truthy(doc, "name")
  /\ Has(doc, "facilityType") /\ doc.facilityType \in FacilityTypeEnum

\* facility.toPublicJSON().  Its address is facility.fullAddress, a virtual,
\* which the plain object of this.toObject() does not carry: the key is
\* undefined and absent from the JSON.
toPublicJSON(id, facility) ==
  [id |-> id,
   name |-> facility.name,
   facilityType |-> facility.facilityType,
   lat |-> facility.location.coordinates[2],
   lon |-> facility.location.coordinates[1],
   paymentOptions |->
     [f \in PaymentFlags \ {"acceptsMedicare"} |-> facility.paymentOptions[f]]]

\* The option names of a search request and the paymentOptions path each
\* one tests (lines 58-78).
OptionPath ==
  [slidingScale |-> "slidingScale", freeCare |-> "freeCare",
   insurance |-> "acceptsInsurance", medicaid |-> "acceptsMedicaid",
   medicare |-> "acceptsMedicare",
   financialAssistance |-> "financialAssistance",
   charityCare |-> "charityCare"]

orConditions(paymentOptions) ==
  {OptionPath[o] : o \in Range(paymentOptions) \cap DOMAIN OptionPath}

MetersPerMile100 == 160934

\* The query object of searchFacilities (lines 36-83), over its base
\* conditions.
QueryOver(base, body, coords) ==
  Obj(base
      \cup {<<"near", <<coords.lon, coords.lat>>>>,
            <<"maxDistance", (Radius(body) * MetersPerMile100) \div 100>>}
      \cup (IF Truthy(body, "facilityType")
            THEN {<<"facilityType", body.facilityType>>} ELSE {})
      \cup (IF Has(body, "paymentOptions") /\ Len(body.paymentOptions) > 0
               /\ orConditions(body.paymentOptions) # {}
            THEN {<<"or", orConditions(body.paymentOptions)>>} ELSE {}))

\* The query without its condition on active.
BuildQueryAnyActive(body, coords) == QueryOver({}, body, coords)

BuildQuery(body, coords) == QueryOver({<<"active", TRUE>>}, body, coords)

\* A GeoJSON point [longitude, latitude] as coordinates.
PointCoords(point) == [lat |-> point[2], lon |-> point[1]]

\* Whether a stored document matches a query (the store's semantics of
\* $near / $maxDistance, equality and $or).
Matches(facility, query) ==
  /\ Has(query, "near") =>
       calculateDistance(PointCoords(query.near),
                         PointCoords(facility.location.coordinates))
         <= query.maxDistance
  /\ Has(query, "active") => facility.active = query.active
  /\ Has(query, "facilityType") => facility.facilityType = query.facilityType
  /\ Has(query, "or") => \E f \in query.or : facility.paymentOptions[f]

\* .limit(50)
SearchLimit == 50

\* Facility.find(query): <<id, document>> pairs; $near orders them nearest
\* first.
RECURSIVE FindFrom(_, _, _)
FindFrom(docs, query, i) ==
  IF i > Len(docs) THEN <<>>
  ELSE (IF Matches(docs[i], query)
        THEN <<[id |-> i, doc |-> docs[i],
                distance |->
                  IF Has(query, "near")
                  THEN calculateDistance(PointCoords(query.near),
                         PointCoords(docs[i].location.coordinates))
                  ELSE 0]>>
        ELSE <<>>)
       \o FindFrom(docs, query, i + 1)

Find(docs, query) == SortByDistance(FindFrom(docs, query, 1))

Limit(found, n) == SubSeq(found, 1, IF Len(found) < n THEN Len(found) ELSE n)

RECURSIVE PublicList(_)
PublicList(found) ==
  IF Len(found) = 0 THEN <<>>
  ELSE <<toPublicJSON(found[1].id, found[1].doc)>> \o PublicList(Tail(found))

\* res.status(200).json of searchFacilities (lines 99-109).
SearchFacilitiesResponse(body, coords, found) ==
  [status |-> 200,
   success |-> TRUE,
   location |-> coords.displayName,
   searchCoordinates |-> [lat |-> coords.lat, lon |-> coords.lon],
   radius |-> Radius(body),
   totalProviders |-> Len(found),
   providers |-> PublicList(found)]

\* The catch block of searchFacilities.
SearchFacilitiesError(msg) ==
  [status |-> 500, success |-> FALSE, error |-> OrElse(msg, "Server Error")]

ServerError == [status |-> 500, success |-> FALSE, error |-> "Server Error"]
NotFound == [status |-> 404, success |-> FALSE, error |-> FacilityNotFound]
BadRequest(msg) == [status |-> 400, success |-> FALSE, error |-> msg]

\* `${address.street}, ${address.city}, ${address.state} ${address.zipCode}`
AddressString(address) ==
  Render(address, "street") \o ", " \o Render(address, "city") \o ", "
  \o Render(address, "state") \o " " \o Render(address, "zipCode")

\* The document createFacility hands to Facility.create (lines 168-190), with
\* the schema defaults applied.
NewFacility(body, coords) ==
  Obj({<<"location", [type |-> "Point",
                      coordinates |-> <<coords.lon, coords.lat>>]>>,
       <<"address", [street |-> Render(body.address, "street"),
                     formatted |-> coords.displayName]>>,
       <<"paymentOptions",
         [f \in PaymentFlags |->
            IF Has(body, "paymentOptions") /\ Has(body.paymentOptions, f)
            THEN body.paymentOptions[f] ELSE PaymentDefaults[f]]>>,
       <<"active", TRUE>>}
      \cup (IF Has(body, "name") THEN {<<"name", body.name>>} ELSE {})
      \cup (IF Has(body, "facilityType")
            THEN {<<"facilityType", body.facilityType>>} ELSE {}))

\* An update that writes the schema default of active along with its paths.
ApplyUpdateReactivating(facility, update) ==
  [k \in DOMAIN facility |->
     IF k = "active" THEN TRUE
     ELSE IF k = "address" /\ Has(update, "address")
     THEN [street |-> Render(update.address, "street"),
           formatted |-> Render(update.address, "formatted")]
     ELSE IF Has(update, k) THEN update[k] ELSE facility[k]]

\* findByIdAndUpdate(id, update): every path of the update replaces the
\* stored one.
ApplyUpdate(facility, update) ==
  [k \in DOMAIN facility |->
     IF k = "address" /\ Has(update, "address")
     THEN [street |-> Render(update.address, "street"),
           formatted |-> Render(update.address, "formatted")]
     ELSE IF Has(update, k) THEN update[k] ELSE facility[k]]

\* An update that rewrites the formatted address and leaves the point alone.
UpdateDocumentStaleLocation(body, coords) ==
  IF Has(body, "address")
  THEN [k \in DOMAIN body |->
          IF k = "address"
          THEN [j \in DOMAIN body.address \cup {"formatted"} |->
                  IF j = "formatted" THEN coords.displayName
                  ELSE body.address[j]]
          ELSE body[k]]
  ELSE body

\* The update updateFacility hands to findByIdAndUpdate (lines 223-234).
UpdateDocument(body, coords) ==
  IF Has(body, "address")
  THEN [k \in DOMAIN body \cup {"location"} |->
          IF k = "location"
          THEN [type |-> "Point", coordinates |-> <<coords.lon, coords.lat>>]
          ELSE IF k = "address"
          THEN [j \in DOMAIN body.address \cup {"formatted"} |->
                  IF j = "formatted" THEN coords.displayName
                  ELSE body.address[j]]
          ELSE body[k]]
  ELSE body

(***************************************************************************)
(* Inputs: the requests and the answers of the external services.          *)
(***************************************************************************)
Tags1 == [amenity |-> "hospital", name |-> "General Hospital", fee |-> "no"]
Tags2 == Obj({<<"amenity", "clinic">>, <<"payment:sliding_scale", "yes">>})
Tags3 == [healthcare |-> "dentist", operator |-> "City Health",
          fee |-> "none"]
Tags4 == Obj({<<"amenity", "clinic">>, <<"payment:sliding_scale", "no">>,
              <<"fee", "yes">>})
Tags5 == [social_facility |-> "healthcare"]

Node1 == [type |-> "node", id |-> 1, lat |-> 1, lon |-> 2, tags |-> Tags1]
Node2 == [type |-> "node", id |-> 2, lat |-> 1, lon |-> 1, tags |-> Tags2]
Node3 == [type |-> "node", id |-> 3, lat |-> 0, lon |-> 1, tags |-> Tags3]
\* A node of a way, as `out skel` lists it: no tags.
Node4 == [type |-> "node", id |-> 4, lat |-> 2, lon |-> 2]
\* A way whose first node is node 4.
Way10 == [type |-> "way", id |-> 10, nodes |-> <<4, 5>>, tags |-> Tags4]
\* A way with an empty node list.
Way11 == [type |-> "way", id |-> 11, nodes |-> <<>>, tags |-> Tags5]
Relation20 == [type |-> "relation", id |-> 20, tags |-> Tags1]

ElemPool == {Node1, Node2, Node3, Node4, Way10, Way11, Relation20}

RECURSIVE SeqsUpTo(_, _)
SeqsUpTo(S, n) ==
  IF n = 0 THEN {<<>>}
  ELSE SeqsUpTo(S, n - 1)
       \cup {Append(q, x) : q \in {t \in SeqsUpTo(S, n - 1) : Len(t) = n - 1},
                            x \in S}

\* What the map-data provider can answer.
ProviderFailures == {[kind |-> "network"], [kind |-> "parse"]}

AllAnswers ==
  ProviderFailures
  \cup {[kind |-> "json", data |-> [elements |-> b]] :
          b \in SeqsUpTo(ElemPool, MaxElems)}

SampleAnswers ==
  ProviderFailures
  \cup {[kind |-> "json", data |-> [remark |-> "runtime error"]],
        [kind |-> "json", data |-> [elements |-> <<Way10, Node1, Node2>>]]}

LiveHandlers == {"apiSearch", "searchProviders"}

SearchHandlers == LiveHandlers \cup {"searchFacilities"}

\* Bodies of the live-map search requests.
LiveBodies ==
  {Obj(a \cup b \cup c) :
     a \in Opt("location", {"Chennai"}),
     b \in Opt("careType", {"clinic"}),
     c \in Opt("paymentOptions",
               {<<"Sliding Scale">>, <<"Free">>, <<"Free", "Sliding Scale">>})}

LiveBodiesLocated == {b \in LiveBodies : Has(b, "location")}

\* POST /api/facilities/search reads location, radius and careType only.
ApiBodiesLocated == {b \in LiveBodiesLocated : ~Has(b, "paymentOptions")}

\* The live-map bodies the full specification draws from.
LiveBodiesPlain == {b \in LiveBodies : DOMAIN b \subseteq {"location"}}

\* Bodies of the persisted search requests; `user` stands for req.user.
SearchBodies ==
  {<<>>,
   [location |-> "Chennai"],
   [location |-> "Chennai", radius |-> 100],
   [location |-> "Chennai", radius |-> 100, facilityType |-> "clinic"],
   [location |-> "Chennai", radius |-> 100,
    paymentOptions |-> <<"slidingScale">>],
   [location |-> "Chennai", radius |-> 100,
    paymentOptions |-> <<"acceptsMedicaid">>],
   [location |-> "Chennai", user |-> TRUE]}

Address1 == [street |-> "21 Greams Lane", city |-> "Chennai",
             state |-> "Tamil Nadu", zipCode |-> "600006"]
Address2 == [street |-> "Park Town", city |-> "Chennai"]

CreateBodies ==
  {[name |-> "Apollo Hospitals", facilityType |-> "hospital",
    address |-> Address1, paymentOptions |-> [slidingScale |-> TRUE]],
   [name |-> "Town Clinic", facilityType |-> "clinic", address |-> Address2],
   [name |-> "Urgent Care", facilityType |-> "urgent-care",
    address |-> Address2],
   [name |-> "No Address", facilityType |-> "clinic"]}

Point21 == [type |-> "Point", coordinates |-> <<2, 1>>]

UpdateBodies ==
  {[active |-> TRUE], [address |-> Address2], [location |-> Point21]}

DbAnswers == {"ok", "fail"}
DbFailed == "MongoNetworkError"

(***************************************************************************)
(* State.                                                                  *)
(***************************************************************************)
VARIABLES
  store,        \* the Facility collection: store[id] is the document of id
  handler,      \* the handler of the request in flight or last answered
  pc,           \* where that handler stands: idle, geocode, data, save, done
  req,          \* its request: [body |-> ..., params |-> ...]
  coordinates,  \* <<c>> once its geocode call has returned c, else <<>>
  answer,       \* what its outbound calls were answered with, in order
  calls,        \* the outbound calls it has issued, in order
  thrown,       \* the message of the Error it caught, "" when none
  resp,         \* its response, [status |-> 0] while there is none
  deleted,      \* ids for which deleteFacility has answered 200
  reactivated,  \* deleted ids that an update carrying active: true rewrote since
  suspended,    \* the searches and tasks waiting at an await while another runs
  reviews       \* the Review collection

vars == <<store, handler, pc, req, coordinates, answer, calls, thrown, resp,
          deleted, reactivated, suspended, reviews>>

\* What the searches and the detail lookup leave alone.
facilityData == <<store, deleted, reactivated, suspended, reviews>>

NoResponse == [status |-> 0]

Init ==
  /\ store = <<>>
  /\ handler = "none"
  /\ pc = "idle"
  /\ req = [body |-> <<>>]
  /\ coordinates = <<>>
  /\ answer = <<>>
  /\ calls = <<>>
  /\ thrown = ""
  /\ resp = NoResponse
  /\ deleted = {}
  /\ reactivated = {}
  /\ suspended = <<>>
  /\ reviews = {}

\* A new request is taken when none is in flight.
Ready == pc \in {"idle", "done"}

Begin(h, r) ==
  /\ Ready
  /\ handler' = h
  /\ req' = r
  /\ coordinates' = <<>>
  /\ answer' = <<>>
  /\ suspended' = suspended
  /\ reviews' = reviews

GeocodeCall(address) ==
  [to |-> "geocoder", q |-> encodeURIComponent(address)]

Respond(r, msg) ==
  /\ resp' = r
  /\ thrown' = msg
  /\ pc' = "done"

(***************************************************************************)
(* The three search handlers, one step per awaited call.                   *)
(***************************************************************************)
\* The handler runs up to its first await: geocodeAddress(location).
StartSearch(h, body) ==
  /\ Begin(h, [body |-> body])
  /\ calls' = <<GeocodeCall(IF Has(body, "location")
                            THEN [address |-> body.location] ELSE <<>>)>>
  /\ pc' = "geocode"
  /\ resp' = NoResponse
  /\ thrown' = ""
  /\ UNCHANGED facilityData

SearchError(h, msg) ==
  IF h = "searchFacilities" THEN SearchFacilitiesError(msg)
  ELSE LiveSearchError(msg)

\* A data query with latitude and longitude exchanged.
DataCallSwapped(h, body, coords) ==
  IF h = "searchFacilities"
  THEN [to |-> "store",
        query |-> BuildQuery(body, [coords EXCEPT !.lat = coords.lon,
                                                  !.lon = coords.lat])]
  ELSE [to |-> "provider", around |-> Radius(body) * 1000,
        lat |-> coords.lon, lon |-> coords.lat]

\* The data query a search handler issues with the geocoded coordinates.
DataCall(h, body, coords) ==
  IF h = "searchFacilities"
  THEN [to |-> "store", query |-> BuildQuery(body, coords)]
  ELSE [to |-> "provider", around |-> Radius(body) * 1000,
        lat |-> coords.lat, lon |-> coords.lon]

\* The geocode call returns: the handler goes on to its data query, or
\* catches the error and answers.
GeocodeReturns(a) ==
  /\ pc = "geocode"
  /\ LET g == geocodeAddress(a)
     IN  IF g.ok
         THEN /\ coordinates' = <<g.value>>
              /\ calls' = Append(calls, DataCall(handler, req.body, g.value))
              /\ pc' = "data"
              /\ UNCHANGED <<resp, thrown>>
         ELSE /\ Respond(SearchError(handler, g.error), g.error)
              /\ UNCHANGED <<coordinates, calls>>
  /\ answer' = Append(answer, a)
  /\ UNCHANGED <<facilityData, handler, req>>

LiveResponse(h, body, coords, facilities) ==
  IF h = "searchProviders"
  THEN SearchProvidersResponse(body, coords, facilities)
  ELSE ApiSearchResponse(body, coords, facilities)

\* The map-data provider answers a live-map search.
ProviderReturns(a) ==
  /\ pc = "data"
  /\ handler \in LiveHandlers
  /\ answer' = Append(answer, a)
  /\ LET f == searchHealthcareFacilities(a, coordinates[1])
     IN  IF f.ok
         THEN Respond(LiveResponse(handler, req.body, coordinates[1], f.value),
                      "")
         ELSE Respond(LiveSearchError(f.error), f.error)
  /\ UNCHANGED <<facilityData, handler, req, coordinates, calls>>

\* Facility.find(query).limit(50) answers the persisted search.
FindReturns(db) ==
  /\ pc = "data"
  /\ handler = "searchFacilities"
  /\ answer' = Append(answer, db)
  /\ IF db = "fail"
     THEN /\ Respond(SearchFacilitiesError(DbFailed), DbFailed)
          /\ UNCHANGED calls
     ELSE IF Has(req.body, "user")
     THEN /\ calls' = Append(calls, [to |-> "user.save"])
          /\ pc' = "save"
          /\ UNCHANGED <<resp, thrown>>
     ELSE /\ Respond(SearchFacilitiesResponse(req.body, coordinates[1],
                       Limit(Find(store, calls[2].query), SearchLimit)), "")
          /\ UNCHANGED calls
  /\ UNCHANGED <<facilityData, handler, req, coordinates>>

\* req.user.save() returns.  The user document, with the history entry pushed
\* at line 90, lives in the users collection, which no handler modelled here
\* reads: it is not part of the state.
SaveReturns(db) ==
  /\ pc = "save"
  /\ IF db = "fail"
     THEN Respond(SearchFacilitiesError(DbFailed), DbFailed)
     ELSE Respond(SearchFacilitiesResponse(req.body, coordinates[1],
                    Limit(Find(store, calls[2].query), SearchLimit)), "")
  /\ answer' = Append(answer, db)
  /\ UNCHANGED <<facilityData, handler, req, coordinates, calls>>

(***************************************************************************)
(* GET /api/facilities/:type/:id                                           *)
(***************************************************************************)
StartDetails(type, id) ==
  /\ Begin("facilityDetails", [body |-> <<>>, params |-> [type |-> type, id |-> id]])
  /\ calls' = <<[to |-> "provider", type |-> type, id |-> id]>>
  /\ pc' = "data"
  /\ resp' = NoResponse
  /\ thrown' = ""
  /\ UNCHANGED facilityData

DetailsReturns(a) ==
  /\ pc = "data"
  /\ handler = "facilityDetails"
  /\ answer' = <<a>>
  /\ LET d == getFacilityDetails(a)
     IN  IF d.ok
         THEN Respond([status |-> 200, details |-> d.value], "")
         ELSE Respond(DetailsError(d.error), d.error)
  /\ UNCHANGED <<facilityData, handler, req, coordinates, calls>>

(***************************************************************************)
(* The facility CRUD handlers of the controller.  Each runs to its         *)
(* response in one step; `db` is the answer of its first store call and    *)
(* `a` the answer of the geocoding service, should the handler call it.    *)
(***************************************************************************)
Ids == 1..MaxFacilities

StoreCall(op) == [to |-> "store", op |-> op]

Finish(h, r, issued, response, msg) ==
  /\ Begin(h, r)
  /\ calls' = issued
  /\ Respond(response, msg)

\* GET /api/facilities
GetFacilities(db) ==
  /\ IF db = "fail"
     THEN Finish("getFacilities", [body |-> <<>>], <<StoreCall("find")>>,
                 ServerError, DbFailed)
     ELSE Finish("getFacilities", [body |-> <<>>], <<StoreCall("find")>>,
                 [status |-> 200, success |-> TRUE, count |-> Len(store),
                  data |-> PublicList(Find(store, <<>>))], "")
  /\ UNCHANGED facilityData

\* GET /api/facilities/:id
GetFacility(id, db) ==
  /\ LET r == [body |-> <<>>, params |-> [id |-> id]]
         issued == <<StoreCall("findById")>>
     IN  IF db = "fail"
         THEN Finish("getFacility", r, issued, ServerError, DbFailed)
         ELSE IF id \notin DOMAIN store
         THEN Finish("getFacility", r, issued, NotFound, "")
         ELSE Finish("getFacility", r, issued,
                     [status |-> 200, success |-> TRUE,
                      data |-> toPublicJSON(id, store[id])], "")
  /\ UNCHANGED facilityData

NoAddress == "Cannot read properties of undefined (reading 'street')"

\* POST /api/facilities
CreateFacility(body, a, db) ==
  /\ Len(store) < MaxFacilities
  /\ LET r == [body |-> body]
         g == geocodeAddress(a)
         geo == <<GeocodeCall([address |-> AddressString(body.address)])>>
     IN  IF ~Has(body, "address")
         THEN /\ Finish("createFacility", r, <<>>, BadRequest(NoAddress),
                        NoAddress)
              /\ UNCHANGED store
         ELSE IF ~g.ok
         THEN /\ Finish("createFacility", r, geo, BadRequest(g.error), g.error)
              /\ UNCHANGED store
         ELSE IF ~Validates(NewFacility(body, g.value))
         THEN /\ Finish("createFacility", r, geo \o <<StoreCall("create")>>,
                        BadRequest(ValidationFailed), ValidationFailed)
              /\ UNCHANGED store
         ELSE IF db = "fail"
         THEN /\ Finish("createFacility", r, geo \o <<StoreCall("create")>>,
                        BadRequest(DbFailed), DbFailed)
              /\ UNCHANGED store
         ELSE /\ store' = Append(store, NewFacility(body, g.value))
              /\ Finish("createFacility", r, geo \o <<StoreCall("create")>>,
                        [status |-> 201, success |-> TRUE,
                         data |-> toPublicJSON(Len(store) + 1,
                                    NewFacility(body, g.value))], "")
  /\ UNCHANGED <<deleted, reactivated>>

\* runValidators: true
UpdateValidates(update) ==
  /\ Has(update, "facilityType") => update.facilityType \in FacilityTypeEnum
  /\ Has(update, "name") => update.name # ""

\* An update that writes the fields other than the address before it geocodes.
UpdateFacilityWritingFirst(id, body, a, db) ==
  LET r == [body |-> body, params |-> [id |-> id]]
      g == geocodeAddress(a)
      found == <<StoreCall("findById")>>
      geo == IF Has(body, "address")
             THEN <<GeocodeCall([address |-> AddressString(body.address)])>>
             ELSE <<>>
      others == [k \in DOMAIN body \ {"address"} |-> body[k]]
      update == UpdateDocument(body, IF g.ok THEN g.value ELSE <<>>)
      write == <<StoreCall("findByIdAndUpdate")>>
  IN  IF db = "fail"
      THEN /\ Finish("updateFacility", r, found, BadRequest(DbFailed), DbFailed)
           /\ UNCHANGED <<store, deleted, reactivated>>
      ELSE IF id \notin DOMAIN store
      THEN /\ Finish("updateFacility", r, found, NotFound, "")
           /\ UNCHANGED <<store, deleted, reactivated>>
      ELSE IF Has(body, "address") /\ ~g.ok
      THEN /\ store' = [store EXCEPT ![id] = ApplyUpdate(store[id], others)]
           /\ Finish("updateFacility", r, found \o write \o geo,
                     BadRequest(g.error), g.error)
           /\ UNCHANGED <<deleted, reactivated>>
      ELSE IF ~UpdateValidates(update)
      THEN /\ Finish("updateFacility", r, found \o geo \o write,
                     BadRequest(ValidationFailed), ValidationFailed)
           /\ UNCHANGED <<store, deleted, reactivated>>
      ELSE /\ store' = [store EXCEPT ![id] = ApplyUpdate(store[id], update)]
           /\ reactivated' =
                IF Is(update, "active", TRUE) /\ id \in deleted
                THEN reactivated \cup {id} ELSE reactivated
           /\ Finish("updateFacility", r, found \o geo \o write,
                     [status |-> 200, success |-> TRUE,
                      data |-> toPublicJSON(id,
                                 ApplyUpdate(store[id], update))], "")
           /\ UNCHANGED deleted

\* PUT /api/facilities/:id
UpdateFacility(id, body, a, db) ==
  LET r == [body |-> body, params |-> [id |-> id]]
      g == geocodeAddress(a)
      found == <<StoreCall("findById")>>
      geo == IF Has(body, "address")
             THEN <<GeocodeCall([address |-> AddressString(body.address)])>>
             ELSE <<>>
      update == UpdateDocument(body, IF g.ok THEN g.value ELSE <<>>)
      write == <<StoreCall("findByIdAndUpdate")>>
  IN  IF db = "fail"
      THEN /\ Finish("updateFacility", r, found, BadRequest(DbFailed), DbFailed)
           /\ UNCHANGED facilityData
      ELSE IF id \notin DOMAIN store
      THEN /\ Finish("updateFacility", r, found, NotFound, "")
           /\ UNCHANGED facilityData
      ELSE IF Has(body, "address") /\ ~g.ok
      THEN /\ Finish("updateFacility", r, found \o geo, BadRequest(g.error),
                     g.error)
           /\ UNCHANGED facilityData
      ELSE IF ~UpdateValidates(update)
      THEN /\ Finish("updateFacility", r, found \o geo \o write,
                     BadRequest(ValidationFailed), ValidationFailed)
           /\ UNCHANGED facilityData
      ELSE /\ store' = [store EXCEPT ![id] = ApplyUpdate(store[id], update)]
           /\ reactivated' =
                IF Is(update, "active", TRUE) /\ id \in deleted
                THEN reactivated \cup {id} ELSE reactivated
           /\ Finish("updateFacility", r, found \o geo \o write,
                     [status |-> 200, success |-> TRUE,
                      data |-> toPublicJSON(id,
                                 ApplyUpdate(store[id], update))], "")
           /\ UNCHANGED deleted

\* facility.active = false; await facility.save()
softDelete(facility) == [facility EXCEPT !.active = FALSE]

\* DELETE /api/facilities/:id
DeleteFacility(id, db) ==
  LET r == [body |-> <<>>, params |-> [id |-> id]]
      found == <<StoreCall("findById")>>
  IN  IF db = "fail"
      THEN /\ Finish("deleteFacility", r, found, ServerError, DbFailed)
           /\ UNCHANGED facilityData
      ELSE IF id \notin DOMAIN store
      THEN /\ Finish("deleteFacility", r, found, NotFound, "")
           /\ UNCHANGED facilityData
      ELSE /\ store' = [store EXCEPT ![id] = softDelete(store[id])]
           /\ deleted' = deleted \cup {id}
           /\ reactivated' = reactivated \ {id}
           /\ Finish("deleteFacility", r, found \o <<StoreCall("save")>>,
                     [status |-> 200, success |-> TRUE, data |-> <<>>], "")

(***************************************************************************)
(* Specifications.                                                         *)
(***************************************************************************)
\* The facility API and the live-map server, one request at a time.
Next ==
  \/ \E h \in LiveHandlers, b \in LiveBodiesPlain : StartSearch(h, b)
  \/ \E b \in SearchBodies : StartSearch("searchFacilities", b)
  \/ \E a \in GeoAnswers : GeocodeReturns(a)
  \/ \E a \in SampleAnswers : ProviderReturns(a)
  \/ \E db \in DbAnswers : FindReturns(db)
  \/ \E db \in DbAnswers : SaveReturns(db)
  \/ StartDetails("way", 10)
  \/ \E a \in SampleAnswers : DetailsReturns(a)
  \/ \E db \in DbAnswers : GetFacilities(db)
  \/ \E id \in Ids, db \in DbAnswers : GetFacility(id, db)
  \/ \E b \in CreateBodies, db \in DbAnswers :
       \E a \in IF Has(b, "address") THEN GeoAnswers ELSE {[kind |-> "network"]} :
         CreateFacility(b, a, db)
  \/ \E id \in Ids, b \in UpdateBodies, db \in DbAnswers :
       \E a \in IF Has(b, "address") THEN GeoAnswers ELSE {[kind |-> "network"]} :
         UpdateFacility(id, b, a, db)
  \/ \E id \in Ids, db \in DbAnswers : DeleteFacility(id, db)

Spec == Init /\ [][Next]_vars

\* The live-map server alone, over every batch the provider can answer with.
NextLive ==
  \/ \E b \in ApiBodiesLocated : StartSearch("apiSearch", b)
  \/ \E b \in LiveBodiesLocated : StartSearch("searchProviders", b)
  \/ \E a \in GeoAnswers : GeocodeReturns(a)
  \/ \E a \in AllAnswers : ProviderReturns(a)
  \/ \E t \in {"node", "way"} : StartDetails(t, 10)
  \/ \E a \in AllAnswers : DetailsReturns(a)

SpecLive == Init /\ [][NextLive]_vars

(***************************************************************************)
(* The live-map search over batches of every kind of element the query     *)
(* asks for: nodes, ways and relations, with and without tags.             *)
(***************************************************************************)
\* A way without tags whose first node is node 4.
Way12 == [type |-> "way", id |-> 12, nodes |-> <<4>>]
\* A relation as `out body` lists it: tags and members, no coordinates.
Relation21 == [type |-> "relation", id |-> 1, tags |-> Tags2]

KindPool == {Node1, Node4, Way10, Way12, Relation20, Relation21}

KindAnswers ==
  {[kind |-> "json", data |-> [elements |-> b]] :
     b \in SeqsUpTo(KindPool, MaxElems)}

NextKinds ==
  \/ StartSearch("searchProviders", [location |-> "Chennai"])
  \/ \E a \in GeoAnswers : GeocodeReturns(a)
  \/ \E a \in KindAnswers : ProviderReturns(a)

SpecKinds == Init /\ [][NextKinds]_vars

(***************************************************************************)
(* The writes of the facility API alone, with updates that carry an        *)
(* address together with other fields.                                     *)
(***************************************************************************)
WriteBodies ==
  {[name |-> "Apollo Hospitals", facilityType |-> "hospital",
    address |-> Address1],
   [name |-> "Town Clinic", facilityType |-> "clinic", address |-> Address2]}

RewriteBodies ==
  {[name |-> "Park Clinic", active |-> TRUE, address |-> Address2],
   [name |-> "Greams Hospital", facilityType |-> "hospital",
    address |-> Address1],
   [name |-> "Park Clinic"]}

NextWrite ==
  \/ \E b \in WriteBodies, a \in GeoAnswers, db \in DbAnswers :
       CreateFacility(b, a, db)
  \/ \E id \in Ids, b \in RewriteBodies, a \in GeoAnswers, db \in DbAnswers :
       UpdateFacility(id, b, a, db)
  \/ \E id \in Ids, db \in DbAnswers : DeleteFacility(id, db)

SpecWrite == Init /\ [][NextWrite]_vars

(***************************************************************************)
(* The normalizer alone: the detail lookup and a search over one-node      *)
(* batches, for tag sets that vary the keys each derived field reads.      *)
(***************************************************************************)
\* Tag sets varying what facilityType and name are derived from.
TypeTags ==
  {Obj(a \cup b \cup c \cup d \cup e) :
     a \in Opt("amenity", {"hospital", "clinic", "doctors", "pharmacy"}),
     b \in Opt("healthcare", {"", "centre", "clinic", "dentist", "doctor"}),
     c \in Opt("social_facility", {"healthcare", "shelter"}),
     d \in Opt("name", {"", "General Hospital"}),
     e \in Opt("operator", {"City Health"})}

\* Tag sets varying what specialties are derived from.
SpecialtyTags ==
  {Obj(a \cup b \cup c \cup d \cup e) :
     a \in Opt("amenity", {"hospital", "clinic"}),
     b \in Opt("healthcare", {"dentist", "psychology", "centre"}),
     c \in Opt("healthcare:speciality:cardiology", {"yes", "no"}),
     d \in Opt("healthcare:speciality:dental", {"yes"}),
     e \in Opt("healthcare:speciality", {"yes", "cardiology"})}

\* Tag sets varying what the payment information is derived from.
PaymentTags ==
  {Obj(a \cup b \cup c \cup d \cup e) :
     a \in Opt("amenity", {"clinic"}),
     b \in Opt("payment:insurance", {"yes", "no", "limited"}),
     c \in Opt("payment:sliding_scale", {"yes", "no", "unknown"}),
     d \in Opt("fee", {"yes", "no", "none", "donation"}),
     e \in Opt("payment:cash", {"yes"})}

TagSets == TypeTags \cup SpecialtyTags \cup PaymentTags

\* The provider answers with one node carrying the tags.
NodeOf(tags) == [type |-> "node", id |-> 1, lat |-> 1, lon |-> 2, tags |-> tags]

NormAnswers ==
  {[kind |-> "json", data |-> [elements |-> <<NodeOf(t)>>]] : t \in TagSets}

NextNorm ==
  \/ StartSearch("apiSearch", [location |-> "Chennai"])
  \/ \E a \in GeoAnswers : GeocodeReturns(a)
  \/ \E a \in NormAnswers : ProviderReturns(a)
  \/ StartDetails("node", 1)
  \/ \E a \in NormAnswers : DetailsReturns(a)

SpecNorm == Init /\ [][NextNorm]_vars

(***************************************************************************)
(* The cost comparison of the page (cost-estimation.js).  Amounts are in   *)
(* hundredths of a currency unit, so that 125050 is 1250.50.               *)
(***************************************************************************)
\* Math.round(cost * percent / 100), for a cost in hundredths: the nearest
\* whole unit, halves up, again in hundredths.
RoundTimes(cost, percent) == 100 * ((cost * percent + 5000) \div 10000)

\* providers.sort((a, b) => a.averageCost - b.averageCost): stable.
RECURSIVE InsertByCost(_, _)
InsertByCost(sorted, p) ==
  IF Len(sorted) = 0 THEN <<p>>
  ELSE IF p.averageCost - sorted[Len(sorted)].averageCost >= 0
       THEN Append(sorted, p)
       ELSE Append(InsertByCost(SubSeq(sorted, 1, Len(sorted) - 1), p),
                   sorted[Len(sorted)])

RECURSIVE SortByCostFrom(_, _, _)
SortByCostFrom(providers, sorted, i) ==
  IF i > Len(providers) THEN sorted
  ELSE SortByCostFrom(providers, InsertByCost(sorted, providers[i]), i + 1)

\* The providers in the order the response lists them.
SortByCostAsReceived(providers) == providers

SortByCost(providers) == SortByCostFrom(providers, <<>>, 1)

\* The table row of one provider (lines 107-132, 143-158).
CostRow(provider, insuranceType) ==
  LET percent == IF insuranceType = "private" THEN 60
                 ELSE IF insuranceType = "medicare" THEN 45
                 ELSE IF insuranceType = "medicaid" THEN 40
                 ELSE 0
  IN  [facilityId |-> provider.facilityId,
       adjustedCost |-> IF percent = 0 THEN provider.averageCost
                        ELSE RoundTimes(provider.averageCost, percent),
       adjustedMin |-> IF percent = 0 THEN provider.minCost
                       ELSE RoundTimes(provider.minCost, percent),
       adjustedMax |-> IF percent = 0 THEN provider.maxCost
                       ELSE RoundTimes(provider.maxCost, percent),
       discount |-> percent # 0]

RECURSIVE CostRows(_, _)
CostRows(providers, insuranceType) ==
  IF Len(providers) = 0 THEN <<>>
  ELSE <<CostRow(providers[1], insuranceType)>>
       \o CostRows(Tail(providers), insuranceType)

\* displayCostResults(data, insuranceType): the rows of the table.
displayCostResults(data, insuranceType) ==
  CostRows(SortByCost(data.providers), insuranceType)

\* What /api/cost-compare can answer with.
CostProviders ==
  {[facilityId |-> 1, averageCost |-> 125050, minCost |-> 100000,
    maxCost |-> 150000],
   [facilityId |-> 2, averageCost |-> 1000, minCost |-> 250,
    maxCost |-> 3000],
   [facilityId |-> 3, averageCost |-> 84000, minCost |-> 67200,
    maxCost |-> 100800],
   [facilityId |-> 4, averageCost |-> 84100, minCost |-> 5000,
    maxCost |-> 99900],
   [facilityId |-> 5, averageCost |-> 300, minCost |-> 100,
    maxCost |-> 12550]}

CostAnswers ==
  {[kind |-> "network"]}
  \cup {[kind |-> "json", data |-> [providers |-> ps]] :
          ps \in SeqsUpTo(CostProviders, MaxProviders)}

\* The options of the insurance select, and a value that is none of them.
InsuranceTypes == {"none", "private", "medicare", "medicaid", "tricare"}

\* The click handler of the estimate button (lines 18-58), run to its end:
\* the form is checked, /api/cost-compare is fetched, the table is shown.
EstimateCost(procedure, zipCode, insurance, a) ==
  /\ Begin("estimateCost",
           [body |-> [procedure |-> procedure, zipCode |-> zipCode,
                      insurance |-> insurance]])
  /\ IF procedure = "" \/ zipCode = ""
     THEN /\ calls' = <<>>
          /\ Respond([alert |-> "warning"], "")
     ELSE /\ calls' = <<[to |-> "cost-compare", procedureName |-> procedure,
                         zipCode |-> zipCode, insuranceType |-> insurance,
                         radius |-> 25]>>
          /\ IF a.kind = "network"
             THEN Respond([alert |-> "danger"], FetchFailed)
             ELSE IF Len(a.data.providers) = 0
             THEN Respond([alert |-> "info"], "")
             ELSE Respond([rows |-> displayCostResults(a.data, insurance),
                           providers |-> a.data.providers], "")
  /\ UNCHANGED facilityData

NextCost ==
  \E procedure \in {"", "General Health Checkup"}, zipCode \in {"", "600006"},
     insurance \in InsuranceTypes, a \in CostAnswers :
    EstimateCost(procedure, zipCode, insurance, a)

SpecCost == Init /\ [][NextCost]_vars

(***************************************************************************)
(* The distance function alone, over whole-degree points of a 3 by 3       *)
(* degree square around the origin.                                        *)
(***************************************************************************)
DistPoints == {[lat |-> lat, lon |-> lon] : lat \in -1..2, lon \in -1..2}

\* calculateDistance(coords1, coords2) is called and returns.
CalculateDistance(coords1, coords2) ==
  /\ Begin("calculateDistance",
           [body |-> [coords1 |-> coords1, coords2 |-> coords2]])
  /\ calls' = <<>>
  /\ Respond([distance |-> calculateDistance(coords1, coords2)], "")
  /\ UNCHANGED facilityData

NextDist == \E coords1 \in DistPoints, coords2 \in DistPoints :
              CalculateDistance(coords1, coords2)

SpecDist == Init /\ [][NextDist]_vars

(***************************************************************************)
(* Concurrent searches.  A handler runs until its next await; while its    *)
(* call is outstanding the event loop runs other handlers.  What a handler *)
(* keeps across an await are its own req and its const and let locals.     *)
(***************************************************************************)
MaxSearches == 2

RemoveAt(s, i) == SubSeq(s, 1, i - 1) \o SubSeq(s, i + 1, Len(s))

\* The search at its await is set aside; the event loop is free.
Suspend ==
  /\ handler \in SearchHandlers
  /\ pc \in {"geocode", "data", "save"}
  /\ Len(suspended) < MaxSearches - 1
  /\ suspended' = Append(suspended,
                         [handler |-> handler, pc |-> pc, req |-> req,
                          coordinates |-> coordinates, answer |-> answer,
                          calls |-> calls, thrown |-> thrown, resp |-> resp])
  /\ handler' = "none"
  /\ pc' = "idle"
  /\ req' = [body |-> <<>>]
  /\ coordinates' = <<>>
  /\ answer' = <<>>
  /\ calls' = <<>>
  /\ thrown' = ""
  /\ resp' = NoResponse
  /\ UNCHANGED <<store, deleted, reactivated, reviews>>

\* The event loop turns to a waiting search whose coordinates are one
\* variable of the module, holding what the last geocode call returned.
ResumeSharingCoordinates(i) ==
  /\ Ready
  /\ i \in DOMAIN suspended
  /\ handler' = suspended[i].handler
  /\ pc' = suspended[i].pc
  /\ req' = suspended[i].req
  /\ coordinates' = IF coordinates # <<>> THEN coordinates
                    ELSE suspended[i].coordinates
  /\ answer' = suspended[i].answer
  /\ calls' = suspended[i].calls
  /\ thrown' = suspended[i].thrown
  /\ resp' = suspended[i].resp
  /\ suspended' = RemoveAt(suspended, i)
  /\ UNCHANGED <<store, deleted, reactivated, reviews>>

\* The event loop turns to a waiting search, with that search's locals.
Resume(i) ==
  /\ Ready
  /\ i \in DOMAIN suspended
  /\ handler' = suspended[i].handler
  /\ pc' = suspended[i].pc
  /\ req' = suspended[i].req
  /\ coordinates' = suspended[i].coordinates
  /\ answer' = suspended[i].answer
  /\ calls' = suspended[i].calls
  /\ thrown' = suspended[i].thrown
  /\ resp' = suspended[i].resp
  /\ suspended' = RemoveAt(suspended, i)
  /\ UNCHANGED <<store, deleted, reactivated, reviews>>

ConcurrentLiveBodies ==
  {[location |-> "Chennai"], [location |-> "Chennai", careType |-> "clinic"]}

ConcurrentSearchBodies ==
  {[location |-> "Chennai", radius |-> 100], [location |-> "Chennai", user |-> TRUE]}

\* Searches among themselves: facilities are written while none is in flight.
NextConcurrent ==
  \/ \E b \in ConcurrentLiveBodies : StartSearch("searchProviders", b)
  \/ \E b \in ConcurrentSearchBodies : StartSearch("searchFacilities", b)
  \/ \E a \in GeoAnswers : GeocodeReturns(a)
  \/ \E a \in SampleAnswers : ProviderReturns(a)
  \/ \E db \in DbAnswers : FindReturns(db)
  \/ \E db \in DbAnswers : SaveReturns(db)
  \/ Suspend
  \/ \E i \in 1..(MaxSearches - 1) : Resume(i)
  \/ /\ suspended = <<>>
     /\ \E b \in {b \in CreateBodies : Has(b, "address")}, a \in GeoAnswers :
          CreateFacility(b, a, "ok")

SpecConcurrent == Init /\ [][NextConcurrent]_vars

(***************************************************************************)
(* Reviews of one facility: review.save() and review.remove() with the     *)
(* hooks of the Review model, and the getAverageRating tasks they start.   *)
(* A task is started by its hook and not awaited: it waits in `suspended`  *)
(* and goes on whenever its outstanding call is answered.                  *)
(***************************************************************************)
MaxTasks == 2
MaxWrites == 3

ReviewUsers == {1, 2}
ReviewRatings == {0, 1, 5}
DuplicateKey == "E11000 duplicate key error"
ReviewWriters == {"saveReview", "removeReview"}

\* The process is up and its event loop turns.
Running == pc \notin {"exit", "killed"}

RECURSIVE SumOfRatings(_)
SumOfRatings(docs) ==
  IF docs = {} THEN 0
  ELSE LET d == CHOOSE d \in docs : TRUE
       IN  d.rating + SumOfRatings(docs \ {d})

\* The $match and $group stages (lines 71-81): no group when nothing matches;
\* the average in hundredths.
aggregate(docs, facilityId) ==
  LET matched == {d \in docs : d.facility = facilityId}
  IN  IF matched = {} THEN <<>>
      ELSE <<[id |-> facilityId,
              averageRating |->
                (100 * SumOfRatings(matched)) \div Cardinality(matched)]>>

\* getAverageRating(facilityId) run up to its first await (line 71).
getAverageRating(facilityId) ==
  [handler |-> "getAverageRating", pc |-> "aggregate", facility |-> facilityId]

\* The writes are numbered in the order they are made.
WritesMade == IF Has(req, "n") THEN req.n ELSE 0

\* The task a hook starts during write n.
StartedBy(n, facilityId) ==
  LET task == getAverageRating(facilityId)
  IN  [handler |-> task.handler, pc |-> task.pc, facility |-> task.facility,
       write |-> n]

\* The writer calls review.save(): the document is validated (lines 15-20)
\* and the insert is sent.
SaveReview(user, rating) ==
  /\ Ready
  /\ WritesMade < MaxWrites
  /\ handler' = "saveReview"
  /\ req' = [body |-> [facility |-> 1, user |-> user, rating |-> rating],
             n |-> WritesMade + 1]
  /\ coordinates' = <<>>
  /\ answer' = <<>>
  /\ IF rating < 1 \/ rating > 5
     THEN /\ calls' = <<>>
          /\ Respond([success |-> FALSE, error |-> ValidationFailed],
                     ValidationFailed)
     ELSE /\ calls' = <<[to |-> "reviews", op |-> "insertOne"]>>
          /\ pc' = "insert"
          /\ resp' = NoResponse
          /\ thrown' = ""
  /\ UNCHANGED facilityData

\* The insert is answered; after a successful one the post('save') hook
\* (lines 94-96) starts getAverageRating and save() resolves.
InsertReturns(db) ==
  /\ pc = "insert"
  /\ Len(suspended) < MaxTasks
  /\ LET duplicate == \E d \in reviews : /\ d.facility = req.body.facility
                                         /\ d.user = req.body.user
     IN  IF db = "fail"
         THEN /\ answer' = <<db>>
              /\ Respond([success |-> FALSE, error |-> DbFailed], DbFailed)
              /\ UNCHANGED <<reviews, suspended>>
         ELSE IF duplicate
         THEN /\ answer' = <<"duplicate">>
              /\ Respond([success |-> FALSE, error |-> DuplicateKey],
                         DuplicateKey)
              /\ UNCHANGED <<reviews, suspended>>
         ELSE /\ answer' = <<db>>
              /\ reviews' = reviews \cup {req.body}
              /\ suspended' =
                   Append(suspended, StartedBy(req.n, req.body.facility))
              /\ Respond([success |-> TRUE], "")
  /\ UNCHANGED <<store, deleted, reactivated, handler, req, coordinates, calls>>

\* The writer calls review.remove(): the pre('remove') hook (lines 99-101)
\* starts getAverageRating, then the delete is sent.
RemoveReview(user) ==
  /\ Ready
  /\ WritesMade < MaxWrites
  /\ Len(suspended) < MaxTasks
  /\ \E d \in reviews :
       /\ d.user = user
       /\ req' = [body |-> d, n |-> WritesMade + 1]
       /\ suspended' = Append(suspended, StartedBy(WritesMade + 1, d.facility))
  /\ handler' = "removeReview"
  /\ coordinates' = <<>>
  /\ answer' = <<>>
  /\ calls' = <<[to |-> "reviews", op |-> "deleteOne"]>>
  /\ pc' = "remove"
  /\ resp' = NoResponse
  /\ thrown' = ""
  /\ UNCHANGED <<store, deleted, reactivated, reviews>>

\* The delete is answered and remove() settles.
RemoveReturns(db) ==
  /\ pc = "remove"
  /\ answer' = <<db>>
  /\ IF db = "fail"
     THEN /\ Respond([success |-> FALSE, error |-> DbFailed], DbFailed)
          /\ UNCHANGED reviews
     ELSE /\ reviews' = reviews \ {req.body}
          /\ Respond([success |-> TRUE], "")
  /\ UNCHANGED <<store, deleted, reactivated, suspended, handler, req,
                 coordinates, calls>>

\* What the writer's side keeps when a task takes a step.
WriterKept == <<store, deleted, reactivated, reviews, handler, req,
               coordinates, answer, calls>>

\* A task ends, its error, if any, logged by console.error (line 89).
TaskEnds(i) ==
  /\ suspended' = RemoveAt(suspended, i)
  /\ UNCHANGED <<WriterKept, pc, thrown, resp>>

TaskMoves(i, to) ==
  /\ suspended' = [suspended EXCEPT ![i].pc = to]
  /\ UNCHANGED <<WriterKept, pc, thrown, resp>>

\* this.aggregate(...) of task i is answered.  Its failure is thrown outside
\* the try block (line 71) and rejects the promise of getAverageRating, which
\* the hooks dropped: the runtime warns and goes on, or ends the process,
\* by its policy for unhandled rejections.  With a result, the try block
\* reads obj[0].averageRating (line 85): a TypeError, caught, on an empty
\* result; otherwise countDocuments is sent (line 86).
AggregateReturns(i, db, policy) ==
  /\ Running
  /\ i \in DOMAIN suspended
  /\ suspended[i].handler = "getAverageRating"
  /\ suspended[i].pc = "aggregate"
  /\ IF db = "fail"
     THEN IF policy = "warn"
          THEN TaskEnds(i)
          ELSE /\ pc' = IF pc \in {"insert", "remove"} THEN "killed"
                        ELSE "exit"
               /\ thrown' = DbFailed
               /\ resp' = [unhandledRejection |-> DbFailed,
                           write |-> suspended[i].write]
               /\ suspended' = <<>>
               /\ UNCHANGED WriterKept
     ELSE IF aggregate(reviews, suspended[i].facility) = <<>>
     THEN TaskEnds(i)
     ELSE TaskMoves(i, "count")

\* this.countDocuments(...) of task i is answered, inside the try block:
\* findByIdAndUpdate is sent, or the error is caught.
CountReturns(i, db) ==
  /\ Running
  /\ i \in DOMAIN suspended
  /\ suspended[i].handler = "getAverageRating"
  /\ suspended[i].pc = "count"
  /\ IF db = "fail" THEN TaskEnds(i) ELSE TaskMoves(i, "update")

\* findByIdAndUpdate of task i is answered, inside the try block.  The paths
\* ratings.average and ratings.count are not in the Facility schema: the
\* stored facility is as before.
UpdateReturns(i, db) ==
  /\ Running
  /\ i \in DOMAIN suspended
  /\ suspended[i].handler = "getAverageRating"
  /\ suspended[i].pc = "update"
  /\ TaskEnds(i)

NextReview ==
  \/ \E user \in ReviewUsers, rating \in ReviewRatings : SaveReview(user, rating)
  \/ \E db \in DbAnswers : InsertReturns(db)
  \/ \E user \in ReviewUsers : RemoveReview(user)
  \/ \E db \in DbAnswers : RemoveReturns(db)
  \/ \E i \in 1..MaxTasks, db \in DbAnswers, policy \in {"warn", "exit"} :
       AggregateReturns(i, db, policy)
  \/ \E i \in 1..MaxTasks, db \in DbAnswers : CountReturns(i, db)
  \/ \E i \in 1..MaxTasks, db \in DbAnswers : UpdateReturns(i, db)

SpecReview == Init /\ [][NextReview]_vars

(***************************************************************************)
(* Properties.  A state in which pc = "done" shows the request that was    *)
(* just answered: its handler, request, calls, answers and response.       *)
(***************************************************************************)
\* Whether the i-th outbound call of the request was answered with a failure.
CallFailed(i) ==
  IF calls[i].to = "geocoder"
  THEN answer[i].kind # "json" \/ Len(answer[i].data) = 0
  ELSE IF calls[i].to = "provider"
  THEN answer[i].kind # "json" \/ ~Has(answer[i].data, "elements")
  ELSE answer[i] = "fail"

\* The message of the Error that failure raises.
OriginatingError(i) ==
  IF calls[i].to \in {"geocoder", "provider"}
  THEN IF answer[i].kind = "network" THEN FetchFailed
       ELSE IF answer[i].kind = "parse" THEN JsonFailed
       ELSE IF calls[i].to = "geocoder" THEN LocationNotFound
       ELSE NoElements
  ELSE DbFailed

\* The providers of a response name the facility id.
Lists(providers, id) == \E i \in DOMAIN providers : providers[i].id = id

\* What soft deletion promises of facility f: the record is kept with
\* active = false, a search response omits it, getFacility still finds it.
SoftDeleted(f) ==
  /\ f \in DOMAIN store
  /\ store[f].active = FALSE
  /\ (handler = "searchFacilities" /\ pc = "done" /\ Has(resp, "providers"))
       => ~Lists(resp.providers, f)
  /\ (handler = "getFacility" /\ pc = "done" /\ req.params.id = f)
       => /\ resp.status # 404
          /\ thrown = "" => (resp.status = 200 /\ resp.data.id = f)

\* C1 (as amended): after deleteFacility has succeeded for f, and for as long
\* as no later updateFacility carrying active: true has been applied to f,
\* every radius search omits f from its providers, f's record is still in the
\* store with active = false, and getFacility(f) still returns it (no 404).
C1_SoftDeleteUntilReactivated ==
  \A f \in deleted \ reactivated : SoftDeleted(f)

\* C1 as stated: the same of every facility deleteFacility has succeeded for,
\* whatever was done to it since.
C1_SoftDeleteForever == \A f \in deleted : SoftDeleted(f)

\* C1's case: a search has answered while a soft-deleted facility would have
\* matched its query but for the condition on active.
C1_SearchAfterDelete ==
  /\ handler = "searchFacilities" /\ pc = "done" /\ Has(resp, "providers")
  /\ \E f \in deleted \ reactivated :
       Matches(store[f], QueryOver({}, req.body, coordinates[1]))

\* C2 as stated, for the list-all operation: a record whose active flag is
\* false is excluded from the response of getFacilities.
C2_InactiveNeverListed ==
  (handler = "getFacilities" /\ pc = "done" /\ resp.status = 200)
    => \A i \in DOMAIN resp.data : store[resp.data[i].id].active

\* C3: in every search run a response holds a providers list only when every
\* upstream call of the run succeeded; when the geocode call or the data
\* query fails, the run stops there and the response is an error carrying the
\* message of the originating error, with no providers list.
C3_AllOrNothing ==
  (handler \in SearchHandlers /\ pc = "done") =>
    LET failed == {i \in DOMAIN answer : CallFailed(i)}
    IN  /\ Has(resp, "providers")
          => (failed = {} /\ Len(answer) = Len(calls) /\ resp.status = 200)
        /\ failed # {}
          => /\ failed = {Len(answer)}
             /\ Len(calls) = Len(answer)
             /\ resp.status >= 400
             /\ ~Has(resp, "providers")
             /\ resp.error = OriginatingError(Len(answer))
             /\ resp.error = thrown

\* C3's case: the data query of a live-map search failed after its geocode
\* call had succeeded.
C3_DataQueryFailed ==
  /\ handler = "searchProviders" /\ pc = "done"
  /\ Len(answer) = 2 /\ CallFailed(2)
  /\ resp.status = 500

\* C4: in every search run the first outbound call is the geocode call; the
\* facility-data query is issued only once that call has returned
\* successfully, and with the coordinates it returned; when the geocode call
\* fails no facility-data query is issued.
C4_GeocodeThenData ==
  handler \in SearchHandlers =>
    /\ Len(calls) >= 1 /\ calls[1].to = "geocoder"
    /\ pc = "geocode" => (Len(calls) = 1 /\ answer = <<>>)
    /\ (Len(answer) >= 1 /\ CallFailed(1)) => Len(calls) = 1
    /\ Len(calls) >= 2 =>
         /\ Len(answer) >= 1 /\ ~CallFailed(1)
         /\ LET lat == parseFloat(answer[1].data[1].lat)
                lon == parseFloat(answer[1].data[1].lon)
            IN  IF handler = "searchFacilities"
                THEN /\ calls[2].to = "store"
                     /\ calls[2].query.near = <<lon, lat>>
                ELSE /\ calls[2].to = "provider"
                     /\ calls[2].lat = lat /\ calls[2].lon = lon

\* C4's case: a persisted search has issued its data query around the point
\* of longitude 2 and latitude 1 its geocode call returned.
C4_DataQueryIssued ==
  /\ handler = "searchFacilities" /\ pc = "data"
  /\ Len(calls) = 2 /\ calls[2].query.near = <<2, 1>>

\* The kind of error a failure response reports, by its message.
ErrorKind(msg) ==
  IF msg \in {LocationNotFound, ValidationFailed, NoAddress} THEN "invalid"
  ELSE IF msg = FacilityNotFound THEN "missing"
  ELSE "upstream"

StatusOfKind == [invalid |-> 400, missing |-> 404, upstream |-> 500]

\* C5 as stated: every failure response has status 400 for a validation or
\* geocode-not-found error, 404 for a missing resource and 500 for any other
\* failure, whichever handler answers.
C5_StatusByErrorKind ==
  (pc = "done" /\ resp.status >= 400)
    => resp.status = StatusOfKind[ErrorKind(resp.error)]

\* C6 as stated: a search request without a location is rejected as invalid
\* before any outbound call is made.
C6_MissingLocationRejected ==
  (handler \in SearchHandlers /\ ~Has(req.body, "location"))
    => /\ calls = <<>>
       /\ pc = "done" => (resp.status = 400 /\ ~Has(resp, "providers"))

\* The indices of a batch the normalizer considers: tagged nodes and ways.
Tagged(elements) ==
  {i \in DOMAIN elements :
     elements[i].type \in {"node", "way"} /\ Has(elements[i], "tags")}

\* Those among them with no resolvable coordinate: ways whose node list is
\* empty or whose first node is not a node of the batch.
Unresolvable(elements) ==
  {i \in Tagged(elements) :
     /\ elements[i].type = "way"
     /\ \/ Len(elements[i].nodes) = 0
        \/ \A j \in DOMAIN elements :
             ~(elements[j].type = "node" /\ elements[j].id = elements[i].nodes[1])}

\* An unfiltered live-map search has answered a batch of elements.
UnfilteredBatchAnswered ==
  /\ handler \in LiveHandlers /\ pc = "done"
  /\ DOMAIN req.body = {"location"}
  /\ Len(answer) = 2 /\ ~CallFailed(2)

\* C7: for any batch, the result holds one entry per tagged node or way,
\* less exactly one per element with no resolvable coordinate; every other
\* element is returned with its id, type, tags and own coordinates, and the
\* response is a success.
C7_UnresolvableExcluded ==
  UnfilteredBatchAnswered =>
    LET elements == answer[2].data.elements
        kept == Tagged(elements) \ Unresolvable(elements)
    IN  /\ resp.status = 200 /\ thrown = ""
        /\ Len(resp.providers) =
             Cardinality(Tagged(elements)) - Cardinality(Unresolvable(elements))
        /\ \A i \in kept :
             \E k \in DOMAIN resp.providers :
               /\ resp.providers[k].id = elements[i].id
               /\ resp.providers[k].type = elements[i].type
               /\ resp.providers[k].tags = elements[i].tags
               /\ elements[i].type = "node" =>
                    /\ resp.providers[k].lat = elements[i].lat
                    /\ resp.providers[k].lon = elements[i].lon

\* C7's case: a batch of a way whose first node is missing and a tagged node
\* came back as the node alone.
C7_WayDropped ==
  /\ UnfilteredBatchAnswered
  /\ answer[2].data.elements = <<Way10, Node2>>
  /\ Len(resp.providers) = 1 /\ resp.providers[1].id = 2

\* C8: the providers of a successful live-map search are in ascending order
\* of their distance from the search origin, with or without the careType
\* and payment-option filters.
C8_SortedByDistance ==
  (handler \in LiveHandlers /\ pc = "done" /\ Has(resp, "providers")) =>
    /\ \A i \in DOMAIN resp.providers :
         resp.providers[i].distance =
           calculateDistance(resp.searchCoordinates,
                             [lat |-> resp.providers[i].lat,
                              lon |-> resp.providers[i].lon])
    /\ \A i, j \in DOMAIN resp.providers :
         i < j => resp.providers[i].distance <= resp.providers[j].distance

\* C8's case: a payment-filtered search whose batch listed the farther
\* facility first answers with the nearer one first.
C8_ReorderedUnderFilter ==
  /\ handler = "searchProviders" /\ pc = "done"
  /\ Has(req.body, "paymentOptions") /\ Has(resp, "providers")
  /\ answer[2].data.elements = <<Node1, Node2>>
  /\ Len(resp.providers) = 2
  /\ resp.providers[1].id = 2
  /\ resp.providers[1].distance < resp.providers[2].distance

\* Whether a facility of these tags satisfies a requested payment option,
\* by the payment information the normalizer derives from the tags.
Satisfies(tags, option) ==
  \/ option = "Sliding Scale" /\ extractPaymentInfo(tags).sliding_scale = "Yes"
  \/ option = "Free" /\ extractPaymentInfo(tags).free_care = "Yes"

\* C9 as stated, for the live-map search: with payment options selected the
\* providers are exactly the facilities found that satisfy at least one of
\* the requested options.
C9_PaymentFilterExact ==
  (/\ handler = "searchProviders" /\ pc = "done" /\ Has(resp, "providers")
   /\ Has(req.body, "paymentOptions") /\ Len(req.body.paymentOptions) > 0)
    => resp.providers =
         FilterSeq(CareTypeFilter(
                     processOverpassResults(answer[2].data, coordinates[1]),
                     req.body),
                   LAMBDA p : \E o \in Range(req.body.paymentOptions) :
                                Satisfies(p.tags, o))

\* C10 as stated: every entry of a search result and every detail record has
\* a non-empty facilityType and a present, non-empty specialties list.
C10_TypeAndSpecialties ==
  /\ (handler \in LiveHandlers /\ pc = "done" /\ Has(resp, "providers"))
       => \A i \in DOMAIN resp.providers :
            /\ resp.providers[i].facilityType # ""
            /\ Has(resp.providers[i], "specialties")
            /\ Len(resp.providers[i].specialties) > 0
  /\ (handler = "facilityDetails" /\ pc = "done" /\ Has(resp, "details"))
       => /\ resp.details.facilityType # ""
          /\ Has(resp.details, "specialties")
          /\ Len(resp.details.specialties) > 0

\* The normalized facilities of the response just given: the entries of a
\* search result, or the detail record.
Normalized ==
  IF handler = "facilityDetails" /\ pc = "done" /\ Has(resp, "details")
  THEN {resp.details}
  ELSE IF handler \in LiveHandlers /\ pc = "done" /\ Has(resp, "providers")
  THEN Range(resp.providers)
  ELSE {}

\* The value of a tag, "" when the tag is absent.
TagValue(tags, k) == IF Has(tags, k) THEN tags[k] ELSE ""

\* C11: facilityType follows the rules in priority order, first match wins:
\* amenity hospital, clinic, doctors give Hospital, Clinic, Doctor's Office
\* whatever healthcare says; otherwise healthcare centre, clinic, or any
\* other non-empty value v give Health Center, Clinic, "Healthcare (v)"
\* whatever social_facility says; otherwise social_facility healthcare gives
\* Community Health Center; otherwise Healthcare Facility.
C11_TypeByPriority ==
  \A f \in Normalized :
    LET am == TagValue(f.tags, "amenity")
        hc == TagValue(f.tags, "healthcare")
        sf == TagValue(f.tags, "social_facility")
        byAmenity == am \in {"hospital", "clinic", "doctors"}
    IN  /\ am = "hospital" => f.facilityType = "Hospital"
        /\ am = "clinic" => f.facilityType = "Clinic"
        /\ am = "doctors" => f.facilityType = "Doctor's Office"
        /\ (~byAmenity /\ hc = "centre") => f.facilityType = "Health Center"
        /\ (~byAmenity /\ hc = "clinic") => f.facilityType = "Clinic"
        /\ (~byAmenity /\ hc \notin {"", "centre", "clinic"})
             => f.facilityType = "Healthcare (" \o hc \o ")"
        /\ (~byAmenity /\ hc = "" /\ sf = "healthcare")
             => f.facilityType = "Community Health Center"
        /\ (~byAmenity /\ hc = "" /\ sf # "healthcare")
             => f.facilityType = "Healthcare Facility"

\* C11's case: amenity, healthcare and social_facility all name a rule, and
\* the amenity rule has won.
C11_AmenityWins ==
  \E f \in Normalized :
    /\ Is(f.tags, "amenity", "clinic") /\ Is(f.tags, "healthcare", "centre")
    /\ Is(f.tags, "social_facility", "healthcare")
    /\ f.facilityType = "Clinic"

\* C15: the name of a normalized facility is its name tag when there is one
\* (an empty value counts as none); otherwise the operator tag, a space and
\* the facilityType derived from the same tags; otherwise "Unnamed " and
\* that facilityType.
C15_NameDerivation ==
  \A f \in Normalized :
    LET name == TagValue(f.tags, "name")
        operator == TagValue(f.tags, "operator")
    IN  /\ name # "" => f.name = name
        /\ (name = "" /\ operator # "")
             => f.name = operator \o " " \o f.facilityType
        /\ (name = "" /\ operator = "")
             => f.name = "Unnamed " \o f.facilityType

\* C15's case: no name tag, operator City Health and a facilityType of
\* Clinic have given the name City Health Clinic.
C15_CityHealthClinic ==
  \E f \in Normalized :
    /\ ~Has(f.tags, "name") /\ Is(f.tags, "operator", "City Health")
    /\ f.facilityType = "Clinic"
    /\ f.name = "City Health Clinic"

\* The fixed specialty of each healthcare value that has one.
FixedSpecialtyOf ==
  [dentist |-> "Dentistry", pharmacy |-> "Pharmacy",
   optometrist |-> "Optometry", rehabilitation |-> "Rehabilitation",
   alternative |-> "Alternative Medicine", laboratory |-> "Medical Laboratory",
   psychology |-> "Psychology"]

\* The specialties the tags name: the keys prefixed healthcare:speciality:
\* whose value is yes, the prefix stripped, then the fixed specialty.
NamedSpecialties(tags) ==
  LET prefix == "healthcare:speciality:"
      keys == SelectIdx(KeysOf(tags),
                {i \in DOMAIN KeysOf(tags) :
                   /\ startsWith(KeysOf(tags)[i], prefix)
                   /\ tags[KeysOf(tags)[i]] = "yes"}, 1)
      hc == TagValue(tags, "healthcare")
  IN  [i \in DOMAIN keys |-> SubSeq(keys[i], Len(prefix) + 1, Len(keys[i]))]
      \o (IF hc \in DOMAIN FixedSpecialtyOf THEN <<FixedSpecialtyOf[hc]>>
          ELSE <<>>)

\* C16 as stated: the specialties of a detail record are the specialties its
\* tags name; only when there are none are they the one default: General
\* Hospital Services for amenity hospital, General Clinic Services for
\* amenity clinic, "<Capitalized value> Services" for any healthcare value,
\* else General Healthcare.
C16_SpecialtiesFromTags ==
  \A f \in {g \in Normalized : Has(g, "specialties")} :
    LET named == NamedSpecialties(f.tags)
        am == TagValue(f.tags, "amenity")
        hc == TagValue(f.tags, "healthcare")
    IN  IF Len(named) > 0 THEN f.specialties = named
        ELSE f.specialties =
               IF am = "hospital" THEN <<"General Hospital Services">>
               ELSE IF am = "clinic" THEN <<"General Clinic Services">>
               ELSE IF hc # ""
               THEN <<UpperChar(SubSeq(hc, 1, 1)) \o SubSeq(hc, 2, Len(hc))
                      \o " Services">>
               ELSE <<"General Healthcare">>

\* C17: each tri-state field of the payment information is a function of its
\* own source tag alone: accepts_insurance and sliding_scale are Yes for the
\* value yes and No for no; free_care is Yes for a fee of no or none and No
\* for a fee of yes; with the tag absent or of any other value the field is
\* Unknown, whatever the other tags and the facility type are.
C17_TriStateFromOwnTag ==
  \A f \in {g \in Normalized : Has(g, "payment_types")} :
    LET insurance == TagValue(f.tags, "payment:insurance")
        sliding == TagValue(f.tags, "payment:sliding_scale")
        fee == TagValue(f.tags, "fee")
    IN  /\ f.payment_types.accepts_insurance =
             (IF insurance = "yes" THEN "Yes"
              ELSE IF insurance = "no" THEN "No" ELSE "Unknown")
        /\ f.payment_types.sliding_scale =
             (IF sliding = "yes" THEN "Yes"
              ELSE IF sliding = "no" THEN "No" ELSE "Unknown")
        /\ f.payment_types.free_care =
             (IF fee \in {"no", "none"} THEN "Yes"
              ELSE IF fee = "yes" THEN "No" ELSE "Unknown")

\* C17's case: an insurance tag of another value, no sliding-scale tag and
\* a fee of none, on a clinic taking cash.
C17_OtherValueIsUnknown ==
  \E f \in {g \in Normalized : Has(g, "payment_types")} :
    /\ Is(f.tags, "payment:insurance", "limited")
    /\ ~Has(f.tags, "payment:sliding_scale")
    /\ Is(f.tags, "fee", "none") /\ Is(f.tags, "payment:cash", "yes")
    /\ f.payment_types.accepts_insurance = "Unknown"
    /\ f.payment_types.sliding_scale = "Unknown"
    /\ f.payment_types.free_care = "Yes"

\* The multiplier of each insurance category, in percent.
MultiplierPercent ==
  [none |-> 100, private |-> 60, medicare |-> 45, medicaid |-> 40]

\* Whether shown is the whole number of units nearest to cost times percent
\* (amounts in hundredths).
NearestUnit(shown, cost, percent) ==
  /\ shown % 100 = 0
  /\ LET diff == 100 * shown - cost * percent
     IN  -5000 <= diff /\ diff <= 5000

\* C12 as stated: for the categories none, private, medicare and medicaid
\* each of the three costs shown is the stored cost times the multiplier of
\* the category (1.0, 0.60, 0.45, 0.40) rounded to the nearest whole unit;
\* for any other category the three costs are shown as stored.
C12_CostAdjustment ==
  (handler = "estimateCost" /\ pc = "done" /\ Has(resp, "rows")) =>
    \A i \in DOMAIN resp.rows :
      \E p \in Range(resp.providers) :
        /\ p.facilityId = resp.rows[i].facilityId
        /\ IF req.body.insurance \in DOMAIN MultiplierPercent
           THEN LET percent == MultiplierPercent[req.body.insurance]
                IN  /\ NearestUnit(resp.rows[i].adjustedCost, p.averageCost,
                                    percent)
                    /\ NearestUnit(resp.rows[i].adjustedMin, p.minCost, percent)
                    /\ NearestUnit(resp.rows[i].adjustedMax, p.maxCost, percent)
           ELSE /\ resp.rows[i].adjustedCost = p.averageCost
                /\ resp.rows[i].adjustedMin = p.minCost
                /\ resp.rows[i].adjustedMax = p.maxCost

\* The step that answers PUT /api/facilities/:id for a stored facility.
UpdateStep ==
  /\ handler' = "updateFacility"
  /\ pc' = "done"
  /\ req'.params.id \in DOMAIN store

GeocoderCalled == \E i \in DOMAIN calls' : calls'[i].to = "geocoder"

\* The stored point and formatted address are those of one geocoder match.
Regeocoded(facility) ==
  \E m \in Places :
    /\ facility.location.coordinates = <<parseFloat(m.lon), parseFloat(m.lat)>>
    /\ facility.address.formatted = m.display_name

LocationKept(id) ==
  /\ store'[id].location = store[id].location
  /\ store'[id].address.formatted = store[id].address.formatted

GeocodeFailed == pc = "done" /\ Len(answer) = 1

C18_DistanceSymmetric ==
  (handler = "calculateDistance" /\ pc = "done") =>
    LET a == req.body.coords1
        b == req.body.coords2
    IN  /\ resp.distance = calculateDistance(b, a)
        /\ a = b => resp.distance = 0
        /\ resp.distance >= 0

\* C18's case: the distance of two points that differ in latitude and in
\* longitude has been computed, and is positive.
C18_TwoPoints ==
  /\ handler = "calculateDistance" /\ pc = "done"
  /\ req.body.coords1.lat # req.body.coords2.lat
  /\ req.body.coords1.lon # req.body.coords2.lon
  /\ resp.distance > 0

\* The response of a search that runs alone on the request and is answered
\* with the given upstream answers, in call order.
SearchAlone(h, body, answers) ==
  LET g == geocodeAddress(answers[1])
  IN  IF ~g.ok THEN SearchError(h, g.error)
      ELSE IF h \in LiveHandlers
      THEN LET f == searchHealthcareFacilities(answers[2], g.value)
           IN  IF f.ok THEN LiveResponse(h, body, g.value, f.value)
               ELSE LiveSearchError(f.error)
      ELSE IF answers[Len(answers)] = "fail"
      THEN SearchFacilitiesError(DbFailed)
      ELSE SearchFacilitiesResponse(body, g.value,
             Limit(Find(store, BuildQuery(body, g.value)), SearchLimit))

\* A step of a search between two of its awaits.
SearchContinues ==
  /\ handler \in SearchHandlers
  /\ pc \in {"geocode", "data", "save"}
  /\ handler' = handler
  /\ req' = req

\* C19: however concurrently running searches are interleaved, the response
\* of each is the one it gives when it runs alone on the same request and the
\* same upstream answers, and a step of a search changes neither the stored
\* facilities nor anything of the searches waiting meanwhile.
C19_SearchesIndependent ==
  /\ [](handler \in SearchHandlers /\ pc = "done"
          => resp = SearchAlone(handler, req.body, answer))
  /\ [][SearchContinues => store' = store /\ suspended' = suspended]_vars

\* C19's case: a search has been answered with its providers while another
\* search, started and not yet answered, waits for its data query.
C19_Overlapping ==
  /\ handler \in SearchHandlers /\ pc = "done" /\ Has(resp, "providers")
  /\ Len(answer) >= 2
  /\ Len(suspended) >= 1 /\ suspended[1].pc = "data"
  /\ suspended[1].coordinates # coordinates

\* C20: a failure of the rating aggregation never fails the review write
\* that triggered it: that write is not cut off while in flight, and once
\* answered it has the outcome of its own store operation, success when that
\* operation succeeded.
C20_AggregationBestEffort ==
  /\ pc = "killed" => resp.write # req.n
  /\ (handler \in ReviewWriters /\ pc = "done" /\ answer = <<"ok">>)
       => (resp.success /\ thrown = "")

\* The step sets the active flag of stored facility f back to true.
Reactivates(f) == ~store[f].active /\ store'[f].active

GeocodeErrors == {FetchFailed, JsonFailed, LocationNotFound}

\* The step answers a createFacility or updateFacility request whose geocode
\* call failed.
GeocodeFailedInWrite ==
  /\ handler' \in {"createFacility", "updateFacility"}
  /\ pc' = "done"
  /\ thrown' \in GeocodeErrors
  /\ \E i \in DOMAIN calls' : calls'[i].to = "geocoder"

\* C22: when geocoding fails during createFacility no record is created, and
\* when it fails during updateFacility the stored facility keeps all of its
\* field values; the request is answered with an error.
C22_FailedGeocodeWritesNothing ==
  [][GeocodeFailedInWrite => (store' = store /\ resp'.status >= 400)]_vars

\* C22's case: an update carrying an address and other fields was answered
\* with the geocoder's error for a stored facility that has none of the
\* request's other values.
C22_UpdateRefused ==
  /\ handler = "updateFacility" /\ pc = "done"
  /\ thrown \in GeocodeErrors
  /\ req.params.id \in DOMAIN store
  /\ Has(req.body, "name") /\ store[req.params.id].name # req.body.name

\* The indices of a batch the normalizer emits a facility for.
Emitted(elements) == Tagged(elements) \ Unresolvable(elements)

\* C23: a live-map search never returns a facility for a relation or for a
\* node or way without tags; every facility it returns has the type, id and
\* tags of a tagged node or way of the batch, and each type and id is
\* returned once per such element with a resolvable coordinate.
C23_OnlyTaggedNodesAndWays ==
  UnfilteredBatchAnswered =>
    LET elements == answer[2].data.elements
        Same(x, y) == x.type = y.type /\ x.id = y.id
    IN  /\ \A k \in DOMAIN resp.providers :
             LET p == resp.providers[k]
             IN  /\ p.type \in {"node", "way"}
                 /\ \E i \in Tagged(elements) :
                      Same(elements[i], p) /\ elements[i].tags = p.tags
                 /\ Cardinality({j \in DOMAIN resp.providers :
                                   Same(resp.providers[j], p)})
                    = Cardinality({i \in Emitted(elements) :
                                     Same(elements[i], p)})
        /\ \A i \in Emitted(elements) :
             \E k \in DOMAIN resp.providers : Same(resp.providers[k], elements[i])

\* C23's case: a batch of a tagged relation, an untagged way, its untagged
\* node and a tagged way came back as the tagged way alone.
C23_RelationAndSkeletonDropped ==
  /\ UnfilteredBatchAnswered
  /\ Len(answer[2].data.elements) = 3
  /\ \E i, j \in DOMAIN answer[2].data.elements :
       /\ answer[2].data.elements[i].type = "relation"
       /\ answer[2].data.elements[j] = Node4
  /\ Len(resp.providers) = 1 /\ resp.providers[1].type = "way"

\* C24 as stated: in the live-map search a facility found passes the 'Free'
\* option exactly when the normalizer derives free_care 'Yes' from its tags,
\* and the 'Sliding Scale' option exactly when it derives sliding_scale 'Yes'.
C24_FilterAgreesWithNormalizer ==
  (/\ handler = "searchProviders" /\ pc = "done" /\ Has(resp, "providers")
   /\ Has(req.body, "paymentOptions"))
    => \A f \in Range(CareTypeFilter(
                       processOverpassResults(answer[2].data, coordinates[1]),
                       req.body)) :
         LET derived == extractPaymentInfo(f.tags)
             passes == f \in Range(resp.providers)
             asked == Range(req.body.paymentOptions)
         IN  /\ asked = {"Free"} => (passes <=> derived.free_care = "Yes")
             /\ asked = {"Sliding Scale"}
                  => (passes <=> derived.sliding_scale = "Yes")

\* The provider of the response a row of the table was made from.
ProviderOfRow(row) ==
  CHOOSE p \in Range(resp.providers) : p.facilityId = row.facilityId

\* C25: the cost table has one row per provider of the response, the rows
\* are in ascending order of the providers' unadjusted averageCost, and for
\* every insurance type the adjusted average costs shown do not decrease
\* from the first row to the last.
C25_CostTableAscending ==
  (handler = "estimateCost" /\ pc = "done" /\ Has(resp, "rows")) =>
    /\ Len(resp.rows) = Len(resp.providers)
    /\ \A p \in Range(resp.providers) :
         Cardinality({i \in DOMAIN resp.rows :
                        resp.rows[i].facilityId = p.facilityId})
         = Cardinality({k \in DOMAIN resp.providers : resp.providers[k] = p})
    /\ \A i, j \in DOMAIN resp.rows :
         i < j =>
           /\ ProviderOfRow(resp.rows[i]).averageCost
                <= ProviderOfRow(resp.rows[j]).averageCost
           /\ resp.rows[i].adjustedCost <= resp.rows[j].adjustedCost

\* C25's case: the dearer provider came first in the response and a discount
\* applies; the table lists the cheaper one first at a lower adjusted cost.
C25_ReorderedUnderDiscount ==
  /\ handler = "estimateCost" /\ pc = "done" /\ Has(resp, "rows")
  /\ req.body.insurance = "medicare"
  /\ Len(resp.providers) = 2
  /\ resp.providers[1].averageCost > resp.providers[2].averageCost
  /\ resp.rows[1].facilityId = resp.providers[2].facilityId
  /\ resp.rows[1].adjustedCost < resp.rows[2].adjustedCost

====
